---- MODULE Spec2Model ----
(***************************************************************************)
(* NATS Micro service runtime (src/src/micro/api.py, request.py).          *)
(*                                                                         *)
(* A fleet of service instances shares one message bus.  Each instance     *)
(* owns its monitoring subscriptions (PING / INFO / STATS), an ordered     *)
(* list of endpoints and the statistics the wrapping handler maintains.    *)
(* Coroutines are modelled with one step per stretch of code between two   *)
(* awaits; the bus (nats-py) delivers the messages of one subscription     *)
(* one after the other and load-balances inside a queue group.             *)
(***************************************************************************)
EXTENDS Integers, Sequences, FiniteSets, TLC

\* ---------------------------------------------------------------- bounds
NumServices == 2      \* instances of the fleet
MaxEndpoints == 1     \* endpoints per instance
MaxRequests == 3      \* messages clients publish to a running instance
MaxHandlerRequests == 2 \* the same, in the runs without monitoring
MaxLifecycleRequests == 1 \* the same, in the runs with stop()
MaxResetRequests == 2 \* the same, in the runs with reset()
MaxFleetRequests == 1 \* the same, in the runs of the whole fleet
MaxElapsed == 2       \* nanoseconds one invocation can take
MaxResets == 1        \* reset() calls per instance
MaxTime == 1          \* readings of the clock
MaxResponds == 1      \* respond calls of one handler invocation
MaxPending == 1       \* messages queued in one endpoint subscription
MaxGroups == 2        \* groups nested above one endpoint
MaxGroupEndpoints == 2 \* endpoints per instance, in the runs with groups
MaxGroupRequests == 1 \* messages clients publish, in the runs with groups
MaxMiddlewares == 2   \* middlewares around one handler
MaxCaptured == 2      \* respond calls on one captured request
MaxMiddlewareRequests == 1 \* messages clients publish, in the runs with middlewares
MaxWait == 2          \* longest max_wait of a request-many call, in half seconds
MaxInterval == 2      \* longest max_interval, in half seconds
MaxCount == 2         \* largest max_count
MaxReplies == 3       \* replies the responders send to one call
MaxClock == 4         \* half seconds the clock of a call runs
MaxContextServices == 2 \* services one Context adds
MaxResources == 1     \* other resources one Context enters
MaxCatch == 2         \* entries of the catch table of an operation
MaxTypedRequests == 1 \* requests to the endpoint of an operation
MaxTokens == 3        \* tokens of an address template
MaxMountEndpoints == 2 \* endpoints of a service mounted by register_service
MaxCopyEndpoints == 1 \* endpoint entries of a copied ServiceInfo or ServiceStats
MaxMutations == 2     \* changes made to one copy
MaxDecodeEndpoints == 1 \* endpoint entries of a decoded response
MaxStopEndpoints == 2 \* endpoints of the instance that is stopped

\* ------------------------------------------------------ program constants
API_PREFIX == "$SRV"
DEFAULT_QUEUE_GROUP == "q"
INTERNAL_ERROR_CODE == 500
\* the limits nats-py gives a subscription created without limits
DEFAULT_SUB_PENDING_MSGS_LIMIT == 524288
DEFAULT_SUB_PENDING_BYTES_LIMIT == 134217728
\* durations are counted in half seconds
DEFAULT_MAX_WAIT == 1           \* `max_wait = 0.5`
ITERATOR_DEFAULT_MAX_WAIT == 2  \* `max_wait: float | None = 1`

None == "None"
Services == 1..NumServices
ServiceVerb == {"PING", "INFO", "STATS"}
VerbOrder == <<"PING", "INFO", "STATS">>
Prefixes == {API_PREFIX, "custom"}
Elapsed == 1..MaxElapsed
Times == 0..MaxTime

\* ------------------------------------------------------------- utilities
Range(f) == {f[i] : i \in DOMAIN f}

EmptyDict == [k \in {} |-> ""]

\* d[key] = value on a Python dict
DictSet(d, key, value) ==
    [k \in (DOMAIN d) \cup {key} |-> IF k = key THEN value ELSE d[k]]

\* str(int) for the status codes in use
py_str_int(code) ==
    CASE code = 200 -> "200"
      [] code = 400 -> "400"
      [] code = 500 -> "500"
      [] OTHER -> "?"

\* the exceptions a user handler raises
Exceptions == {[type |-> "ValueError", arg |-> "error"]}

\* str(exc) of an exception built from one string argument
py_str_exc(exc) == exc.arg

\* int(a / b): true division to a double, truncated.  Every value the model
\* reaches is far below 2^53, where the double quotient truncates to the
\* floor quotient of the non-negative operands.
int_truediv(a, b) == a \div b

\* optional arguments: None, or a value.  Strings carry None as a value of
\* their own; integers and subjects (sequences of tokens, "" being <<>>) are
\* wrapped
NoInt == [is_none |-> TRUE, v |-> 0]
SomeInt(v) == [is_none |-> FALSE, v |-> v]
NoSubject == [is_none |-> TRUE, v |-> <<>>]
SomeSubject(v) == [is_none |-> FALSE, v |-> v]

\* `x or default`: None and the empty or zero value of the type give default
py_or_str(x, default) == IF x = None \/ x = "" THEN default ELSE x
py_or_int(x, default) == IF x.is_none \/ x.v = 0 THEN default ELSE x.v
py_or_subject(x, default) == IF x.is_none \/ x.v = <<>> THEN default ELSE x.v

\* -------------------------------------------------------------- middleware
\* a handler: the coroutine of the user, or unwrap around a chain of
\* middlewares, calls listing them from the outermost to the innermost
UserHandler == [wrapped |-> FALSE, calls |-> <<>>, middlewares |-> <<>>]

\* _create_next_handler: forward calls the handler on a captured request
create_next_handler(handler) == <<"handler">>

\* _chain_next_handler_and_middleware: the middleware runs first and gets
\* the chain so far as its next
chain_next_handler_and_middleware(chained, middleware) == <<middleware>> \o chained

\* a chaining that takes the middlewares from the first to the last, each
\* around the chain so far
RECURSIVE apply_in_list_order(_, _)
apply_in_list_order(chained, middlewares) ==
    IF middlewares = <<>> THEN chained
    ELSE apply_in_list_order(
             chain_next_handler_and_middleware(chained, Head(middlewares)),
             Tail(middlewares))

\* _apply_middlewares_to_next_handler: `for middleware in
\* reversed(middlewares)`, each around the chain so far
RECURSIVE apply_middlewares_to_next_handler(_, _)
apply_middlewares_to_next_handler(chained, middlewares) ==
    IF middlewares = <<>> THEN chained
    ELSE apply_middlewares_to_next_handler(
             chain_next_handler_and_middleware(chained,
                                               middlewares[Len(middlewares)]),
             SubSeq(middlewares, 1, Len(middlewares) - 1))

\* apply_middlewares: the handler itself for an empty list, otherwise
\* _create_final_handler around the chain
apply_middlewares(handler, middlewares) ==
    IF middlewares = <<>> THEN handler
    ELSE [wrapped |-> TRUE,
          calls |-> apply_middlewares_to_next_handler(
                        create_next_handler(handler), middlewares),
          middlewares |-> middlewares]

\* ---------------------------------------------------------------- config
\* token_hex(12): a fresh identifier per instance
token_hex(s) == <<"id", s>>

ServiceConfig(s) ==
    [name |-> "service1", version |-> "0.0.1", description |-> "",
     metadata |-> EmptyDict, queue_group |-> DEFAULT_QUEUE_GROUP,
     pending_msgs_limit_by_endpoint |-> DEFAULT_SUB_PENDING_MSGS_LIMIT,
     pending_bytes_limit_by_endpoint |-> DEFAULT_SUB_PENDING_BYTES_LIMIT]

get_internal_subject(verb, service, id, api_prefix) ==
    IF service # None
    THEN IF id # None
         THEN <<api_prefix, verb, service, id>>
         ELSE <<api_prefix, verb, service>>
    ELSE <<api_prefix, verb>>

get_internal_subjects(verb, id, config, api_prefix) ==
    << get_internal_subject(verb, None, None, api_prefix),
       get_internal_subject(verb, config.name, None, api_prefix),
       get_internal_subject(verb, config.name, id, api_prefix) >>

endpoint_config(config, name, handler, subject, queue_group, pending_bytes_limit, pending_msgs_limit) ==
    [name |-> name,
     handler |-> handler,
     subject |-> py_or_subject(subject, <<name>>),
     queue_group |-> py_or_str(queue_group, config.queue_group),
     pending_bytes_limit |->
         py_or_int(pending_bytes_limit, config.pending_bytes_limit_by_endpoint),
     pending_msgs_limit |->
         py_or_int(pending_msgs_limit, config.pending_msgs_limit_by_endpoint)]

\* Service.group: the GroupConfig of a group created on the service
Service_group(config, name, queue_group, pending_bytes_limit, pending_msgs_limit) ==
    [name |-> <<name>>,
     queue_group |-> py_or_str(queue_group, config.queue_group),
     pending_bytes_limit_by_endpoint |->
         py_or_int(pending_bytes_limit, config.pending_bytes_limit_by_endpoint),
     pending_msgs_limit_by_endpoint |->
         py_or_int(pending_msgs_limit, config.pending_msgs_limit_by_endpoint)]

\* a child group that forgets its parent: configured as if created on the
\* service
GroupConfig_child_detached(self, name, queue_group, pending_bytes_limit, pending_msgs_limit) ==
    Service_group(ServiceConfig(1), name, queue_group, pending_bytes_limit,
                  pending_msgs_limit)

\* GroupConfig.child: the GroupConfig of a group created in a group
GroupConfig_child(self, name, queue_group, pending_bytes_limit, pending_msgs_limit) ==
    [name |-> self.name \o <<name>>,
     queue_group |-> py_or_str(queue_group, self.queue_group),
     pending_bytes_limit_by_endpoint |->
         py_or_int(pending_bytes_limit, self.pending_bytes_limit_by_endpoint),
     pending_msgs_limit_by_endpoint |->
         py_or_int(pending_msgs_limit, self.pending_msgs_limit_by_endpoint)]

\* the GroupConfig at the end of a chain of k >= 1 groups: service.group(...)
\* for the first, .group(...) for every further one
RECURSIVE GroupConfig_of(_, _, _)
GroupConfig_of(config, chain, k) ==
    IF k = 1
    THEN Service_group(config, chain[1].name, chain[1].queue_group,
                       chain[1].pending_bytes_limit, chain[1].pending_msgs_limit)
    ELSE GroupConfig_child(GroupConfig_of(config, chain, k - 1),
                           chain[k].name, chain[k].queue_group,
                           chain[k].pending_bytes_limit,
                           chain[k].pending_msgs_limit)

\* Group.add_endpoint: the arguments the group hands to Service.add_endpoint
Group_add_endpoint_args(self, name, handler, subject, queue_group, pending_bytes_limit, pending_msgs_limit) ==
    [name |-> name,
     handler |-> handler,
     subject |-> SomeSubject(self.name \o py_or_subject(subject, <<name>>)),
     queue_group |-> py_or_str(queue_group, self.queue_group),
     pending_bytes_limit |->
         SomeInt(py_or_int(pending_bytes_limit,
                           self.pending_bytes_limit_by_endpoint)),
     pending_msgs_limit |->
         SomeInt(py_or_int(pending_msgs_limit,
                           self.pending_msgs_limit_by_endpoint))]

EndpointStats_new(config) ==
    [name |-> config.name, subject |-> config.subject,
     num_requests |-> 0, num_errors |-> 0, last_error |-> "",
     processing_time |-> 0, average_processing_time |-> 0,
     queue_group |-> config.queue_group]

EndpointInfo_new(config) ==
    [name |-> config.name, subject |-> config.subject,
     metadata |-> EmptyDict, queue_group |-> config.queue_group]

PingInfo_new(id, config) ==
    [name |-> config.name, id |-> id, version |-> config.version,
     metadata |-> config.metadata, type |-> "io.nats.micro.v1.ping_response"]


\* ----------------------------------------------------------------- state
VARIABLES
    api_prefix,             \* Service._api_prefix
    stopped,                \* Service._stopped
    started,                \* ServiceStats.started
    ping_response_message,  \* Service._ping_response_message
    endpoints,              \* Service._endpoints: the Endpoint objects
    stats_endpoints,        \* Service._stats.endpoints: references into endpoints
    info_endpoints,         \* Service._info.endpoints: references into endpoints
    ping_subscriptions,     \* Service._ping_subscriptions
    info_subscriptions,     \* Service._info_subscriptions
    stats_subscriptions,    \* Service._stats_subscriptions
    phase,                  \* where the caller's start() / stop() stands
    adding,                 \* add_endpoint calls awaiting their subscription
    add_result,             \* outcome of the latest add_endpoint call
    num_msgs,               \* messages clients have published so far
    mon_pending,            \* messages queued in monitoring subscriptions
    wire,                   \* what the instances published in the last step
    seen,                   \* PING replies so far, INFO and STATS replies since the last change
    num_resets,             \* reset() calls so far
    probe,                  \* the latest call of a function of the library and what it did
    rm,                     \* the request-many call of the client
    ctx                     \* the Context of the program and its main coroutine

svc_vars == <<api_prefix, stopped, started, ping_response_message, endpoints,
              stats_endpoints, info_endpoints, ping_subscriptions,
              info_subscriptions, stats_subscriptions>>
ctl_vars == <<phase, adding, add_result>>
bus_vars == <<num_msgs, mon_pending, wire, seen>>
cli_vars == <<probe, rm, ctx>>
vars == <<svc_vars, ctl_vars, bus_vars, num_resets, cli_vars>>

NoHeaders == [is_none |-> TRUE, d |-> EmptyDict]
SomeHeaders(d) == [is_none |-> FALSE, d |-> d]

NoAdd == [pending |-> FALSE,
          config |-> [name |-> "", handler |-> UserHandler, subject |-> <<>>,
                      queue_group |-> "",
                      pending_bytes_limit |-> 0, pending_msgs_limit |-> 0]]
NoMsg == [verb |-> "", reply |-> FALSE, after_stop |-> {}]
RuntimeErrorStopped == "Cannot add endpoint to a stopped service"

\* no function of the library was called yet
NoCall == [fn |-> "none"]
\* the client has no request-many under way
\* a task that was not created
NoTask == [armed |-> FALSE, due |-> 0, done |-> FALSE]

\* no subscription yet
NoSub == [active |-> FALSE, max_msgs |-> 0, received |-> 0, queue |-> <<>>]

\* nc.new_inbox()
Inbox == "_INBOX"

\* before the call: pc is where the caller stands, now the time since the
\* call in half seconds, arrivals the replies the responders sent so far,
\* stamped whether a reply has set last_received
NoRequestMany ==
    [pc |-> "idle", form |-> "none", now |-> 0, inbox |-> Inbox,
     max_wait |-> NoInt, max_interval |-> NoInt, max_count |-> NoInt,
     stop_on_sentinel |-> FALSE, sub |-> NoSub, last_received |-> 0,
     event |-> FALSE, wait_task |-> NoTask, interval_task |-> NoTask,
     responses |-> <<>>, yielded |-> <<>>, total_received |-> 0,
     did_unsubscribe |-> FALSE, arrivals |-> <<>>, returned_at |-> 0,
     stamped |-> FALSE, tasks_cancelled |-> FALSE]

\* what a Context has on its exit stack: the client, a service, another
\* resource
Item(kind, id) == [kind |-> kind, id |-> id]
ClientItem == Item("client", 0)

\* Context.__init__, before the program runs.  pc is where the main
\* coroutine stands, doing the statement it is at, coro and waiter the two
\* tasks of wait_for, wf what the latest wait_for ended with, entered and
\* exits the resources registered and released so far, exit_raised those
\* whose release raised
NoContext ==
    [mode |-> "none", pc |-> "new", doing |-> "none", cancel_event |-> FALSE,
     exit_stack |-> <<>>, services |-> <<>>, client |-> "new",
     coro |-> "none", waiter |-> "none",
     wf |-> [outcome |-> "none", coro |-> "none", waiter |-> "none"],
     connect_returned |-> FALSE, error |-> FALSE, outcome |-> "none",
     entered |-> <<>>, exits |-> <<>>, exit_raised |-> {}]

\* Service.__init__ for the first n instances of the fleet, created with an
\* api_prefix out of prefixes; the others are never created
InitFleet(n, prefixes) ==
    /\ api_prefix \in {f \in [Services -> prefixes \cup {API_PREFIX}] :
                          \A s \in Services : s > n => f[s] = API_PREFIX}
    /\ stopped = [s \in Services |-> FALSE]
    /\ started = [s \in Services |-> 0]
    /\ ping_response_message =
           [s \in Services |-> PingInfo_new(token_hex(s), ServiceConfig(s))]
    /\ endpoints = [s \in Services |-> <<>>]
    /\ stats_endpoints = [s \in Services |-> <<>>]
    /\ info_endpoints = [s \in Services |-> <<>>]
    /\ ping_subscriptions = [s \in Services |-> <<>>]
    /\ info_subscriptions = [s \in Services |-> <<>>]
    /\ stats_subscriptions = [s \in Services |-> <<>>]
    /\ phase = [s \in Services |-> IF s <= n THEN "constructed" ELSE "absent"]
    /\ adding = [s \in Services |-> NoAdd]
    /\ add_result = [s \in Services |-> "none"]
    /\ num_msgs = 0
    /\ mon_pending = {}
    /\ wire = <<>>
    /\ seen = {}
    /\ num_resets = [s \in Services |-> 0]
    /\ probe = NoCall
    /\ rm = NoRequestMany
    /\ ctx = NoContext

\* one instance, default prefix
Init == InitFleet(1, {API_PREFIX})

\* one instance, default or custom prefix
InitLifecycle == InitFleet(1, Prefixes)

\* every instance of the fleet, default prefix
InitAll == InitFleet(NumServices, {API_PREFIX})

\* the monitoring subscriptions of an instance, in subscription order
MonitoringSubs(s) ==
    ping_subscriptions[s] \o info_subscriptions[s] \o stats_subscriptions[s]

\* ----------------------------------------------------------- Service.start
\* a start() that gives the instance-specific subject of every verb the
\* STATS callback
start_subscription_mixed(s, k) ==
    LET verb == VerbOrder[(k \div 3) + 1]
        subjects == get_internal_subjects(verb, token_hex(s), ServiceConfig(s),
                                          API_PREFIX)
    IN  [subject |-> subjects[(k % 3) + 1], queue |-> "",
         cb |-> IF k % 3 = 2 THEN "STATS" ELSE verb, state |-> "active"]

\* a start() that puts the monitoring subscriptions in the queue group of
\* the service
start_subscription_queued(s, k) ==
    LET verb == VerbOrder[(k \div 3) + 1]
        subjects == get_internal_subjects(verb, token_hex(s), ServiceConfig(s),
                                          API_PREFIX)
    IN  [subject |-> subjects[(k % 3) + 1],
         queue |-> ServiceConfig(s).queue_group, cb |-> verb, state |-> "active"]

\* the k-th subscription start() creates (k = 0..8): three subjects per verb,
\* no queue group, the verb's callback.  The subjects are built with the
\* default prefix: start() does not pass self._api_prefix on.
start_subscription(s, k) ==
    LET verb == VerbOrder[(k \div 3) + 1]
        subjects == get_internal_subjects(verb, token_hex(s), ServiceConfig(s),
                                          API_PREFIX)
    IN  [subject |-> subjects[(k % 3) + 1], queue |-> "", cb |-> verb,
         state |-> "active"]

\* start(): the nine subscriptions, in order; the caller gets control back
\* once all of them are established
start(s) ==
    /\ phase[s] = "constructed"
    /\ ping_subscriptions' = [ping_subscriptions EXCEPT
           ![s] = [j \in 1..3 |-> start_subscription(s, j - 1)]]
    /\ info_subscriptions' = [info_subscriptions EXCEPT
           ![s] = [j \in 1..3 |-> start_subscription(s, j + 2)]]
    /\ stats_subscriptions' = [stats_subscriptions EXCEPT
           ![s] = [j \in 1..3 |-> start_subscription(s, j + 5)]]
    /\ phase' = [phase EXCEPT ![s] = "started"]
    /\ wire' = <<>>
    /\ UNCHANGED <<api_prefix, stopped, started, ping_response_message,
                   endpoints, stats_endpoints, info_endpoints>>
    /\ UNCHANGED <<adding, add_result, num_msgs, mon_pending, seen, num_resets, cli_vars>>

\* ---------------------------------------------------- Service.add_endpoint
\* an add_endpoint that never looks at the stopped flag
add_endpoint_unchecked(s) == FALSE

\* line 650: the check that rejects the call
add_endpoint_rejects(s) == stopped[s]

\* the subscription of lines 663-669: subscribe() gets the subject, the
\* queue group and the callback, and gives the subscription its own default
\* limits
endpoint_subscription(config) ==
    [subject |-> config.subject, queue |-> config.queue_group, state |-> "active",
     pending_msgs_limit |-> DEFAULT_SUB_PENDING_MSGS_LIMIT,
     pending_bytes_limit |-> DEFAULT_SUB_PENDING_BYTES_LIMIT]

\* _CapturedRequest._response before any respond
NoResponse == [set |-> FALSE, data |-> [bytes |-> ""], headers |-> EmptyDict]

\* where the invocation under way stands in the chain of its handler: the
\* frames entered and not yet left (depth), the middlewares in the order
\* they were entered, the response of the captured request or the one the
\* frame below returned, and whether the coroutine of the user returned
NoChain ==
    [stage |-> "none", depth |-> 0, entered |-> <<>>, response |-> NoResponse,
     user_returned |-> FALSE]

\* lines 661-670: the Endpoint object with its subscription attached.  msg,
\* sent and respond_raised describe the invocation of the handler that is
\* under way, outcome how the latest one went
Endpoint_new(config) ==
    [config |-> config,
     stats |-> EndpointStats_new(config),
     info |-> EndpointInfo_new(config),
     sub |-> endpoint_subscription(config),
     pending |-> <<>>, pc |-> "idle", responds |-> 0,
     msg |-> NoMsg, outcome |-> "none", sent |-> <<>>,
     respond_raised |-> FALSE, mw |-> NoChain]

EndpointNames == {"endpoint1"}
QueueGroupArgs == {None}

\* the INFO and STATS replies remembered for an instance are dropped when an
\* endpoint is added or a counter changes
Forget(s) == {x \in seen : x.svc # s \/ x.verb = "PING"}

\* add_endpoint up to its `await self._nc.subscribe(...)`
add_endpoint(s, name, handler, subject, queue_group, pending_bytes_limit, pending_msgs_limit, budget) ==
    /\ phase[s] \in {"started", "draining", "stopped"}
    /\ ~adding[s].pending
    /\ IF add_endpoint_rejects(s)
       THEN /\ add_result' = [add_result EXCEPT ![s] = RuntimeErrorStopped]
            /\ UNCHANGED adding
       ELSE /\ Len(endpoints[s]) < budget
            /\ adding' = [adding EXCEPT ![s] =
                   [pending |-> TRUE,
                    config |-> endpoint_config(ServiceConfig(s), name, handler, subject,
                                               queue_group, pending_bytes_limit,
                                               pending_msgs_limit)]]
            /\ add_result' = [add_result EXCEPT ![s] = "pending"]
    /\ wire' = <<>>
    /\ UNCHANGED <<svc_vars, phase, num_msgs, mon_pending, seen, num_resets, cli_vars>>

\* a list of a response that takes its new entry at the front
list_append_front(refs, ref) == <<ref>> \o refs

\* lines 672-673: the statistics and the description of the endpoint join
\* the lists of the STATS and INFO responses
list_append(refs, ref) == Append(refs, ref)

\* the subscription is established: lines 670-674
add_endpoint_subscribed(s) ==
    /\ adding[s].pending
    /\ endpoints' = [endpoints EXCEPT ![s] = Append(@, Endpoint_new(adding[s].config))]
    /\ stats_endpoints' = [stats_endpoints EXCEPT
           ![s] = list_append(@, Len(endpoints[s]) + 1)]
    /\ info_endpoints' = [info_endpoints EXCEPT
           ![s] = list_append(@, Len(endpoints[s]) + 1)]
    /\ adding' = [adding EXCEPT ![s] = NoAdd]
    /\ add_result' = [add_result EXCEPT ![s] = "ok"]
    /\ seen' = Forget(s)
    /\ wire' = <<>>
    /\ UNCHANGED <<api_prefix, stopped, started, ping_response_message,
                   ping_subscriptions, info_subscriptions, stats_subscriptions>>
    /\ UNCHANGED <<phase, num_msgs, mon_pending, num_resets, cli_vars>>

\* ------------------------------------------------------ Group.add_endpoint
GroupNames == <<"group1", "group2", "group3">>
GroupQueues == <<"q1", "q2", "q3">>

\* the declarations a group at depth i is created with: its own queue group
\* and limits, or none
GroupDecls(i) ==
    {[name |-> GroupNames[i], queue_group |-> q,
      pending_bytes_limit |-> b, pending_msgs_limit |-> m] :
        q \in {None, GroupQueues[i]},
        b \in {NoInt, SomeInt(10 + i)},
        m \in {NoInt, SomeInt(20 + i)}}

\* the chains of k nested groups
RECURSIVE GroupChains(_)
GroupChains(k) ==
    IF k = 0 THEN {<<>>}
    ELSE {Append(c, d) : c \in GroupChains(k - 1), d \in GroupDecls(k)}

\* group1 (queue q1, 21 pending messages), group2 in it (queue q2, 22), ...
NestedGroups(k) ==
    [i \in 1..k |-> [name |-> GroupNames[i], queue_group |-> GroupQueues[i],
                     pending_bytes_limit |-> NoInt,
                     pending_msgs_limit |-> SomeInt(20 + i)]]

\* what add_endpoint is called with
SubjectArgs == {NoSubject, SomeSubject(<<"subject1">>)}
\* queue groups are non-empty names and limits positive numbers: the code
\* reads "" and 0 as not given
QueueGroupValues == {None, "qe"}
LimitArgs == {NoInt, SomeInt(1)}

\* the EndpointConfig an add_endpoint call on the service (empty chain) or on
\* the innermost group of a chain ends with
effective_config(config, chain, name, handler, subject, queue_group, pending_bytes_limit, pending_msgs_limit) ==
    IF chain = <<>>
    THEN endpoint_config(config, name, handler, subject, queue_group,
                         pending_bytes_limit, pending_msgs_limit)
    ELSE LET a == Group_add_endpoint_args(
                      GroupConfig_of(config, chain, Len(chain)), name, handler, subject,
                      queue_group, pending_bytes_limit, pending_msgs_limit)
         IN  endpoint_config(config, a.name, a.handler, a.subject, a.queue_group,
                             a.pending_bytes_limit, a.pending_msgs_limit)

\* a caller resolves the configuration of one endpoint
call_add_endpoint(chain, name, subject, queue_group, pending_bytes_limit, pending_msgs_limit) ==
    /\ probe = NoCall
    /\ probe' = [fn |-> "add_endpoint", chain |-> chain, name |-> name,
                 subject |-> subject, queue_group |-> queue_group,
                 pending_bytes_limit |-> pending_bytes_limit,
                 pending_msgs_limit |-> pending_msgs_limit,
                 config |-> effective_config(ServiceConfig(1), chain, name,
                                UserHandler, subject, queue_group, pending_bytes_limit,
                                pending_msgs_limit)]
    /\ UNCHANGED <<svc_vars, ctl_vars, bus_vars, num_resets, rm, ctx>>

\* Group.add_endpoint on the innermost group of a chain of an instance
Group_add_endpoint(s, chain, name, handler, subject, queue_group, pending_bytes_limit, pending_msgs_limit) ==
    LET self == GroupConfig_of(ServiceConfig(s), chain, Len(chain))
        a == Group_add_endpoint_args(self, name, handler, subject, queue_group,
                                     pending_bytes_limit, pending_msgs_limit)
    IN  /\ chain # <<>>
        /\ add_endpoint(s, a.name, a.handler, a.subject, a.queue_group,
                        a.pending_bytes_limit, a.pending_msgs_limit,
                        MaxGroupEndpoints)

\* ------------------------------------------------------------ Service.stop
\* stop() up to its first gather: the flag, then one Endpoint.stop() per
\* endpoint of the list as it is now; drain() closes the subscription to new
\* messages and waits for the queued ones
stop(s) ==
    /\ phase[s] = "started"
    /\ stopped' = [stopped EXCEPT ![s] = TRUE]
    /\ endpoints' = [endpoints EXCEPT ![s] =
           [e \in DOMAIN @ |-> IF @[e].sub.state = "active"
                               THEN [@[e] EXCEPT !.sub.state = "draining"]
                               ELSE @[e]]]
    /\ phase' = [phase EXCEPT ![s] = "draining"]
    /\ wire' = <<>>
    /\ UNCHANGED <<api_prefix, started, ping_response_message, stats_endpoints,
                   info_endpoints, ping_subscriptions, info_subscriptions,
                   stats_subscriptions>>
    /\ UNCHANGED <<adding, add_result, num_msgs, mon_pending, seen, num_resets, cli_vars>>

\* Endpoint.stop: the drain of one endpoint completes, self._sub = None
Endpoint_stop(s, e) ==
    /\ endpoints[s][e].sub.state = "draining"
    /\ endpoints[s][e].pending = <<>>
    /\ endpoints[s][e].pc = "idle"
    /\ endpoints' = [endpoints EXCEPT ![s][e].sub.state = "none"]
    /\ wire' = <<>>
    /\ UNCHANGED <<api_prefix, stopped, started, ping_response_message,
                   stats_endpoints, info_endpoints, ping_subscriptions,
                   info_subscriptions, stats_subscriptions>>
    /\ UNCHANGED <<ctl_vars, num_msgs, mon_pending, seen, num_resets, cli_vars>>

Unsubscribed(subs) == [i \in DOMAIN subs |-> [subs[i] EXCEPT !.state = "closed"]]

\* a second gather that starts before the drains are over
stop_unsubscribe_early(s) ==
    /\ phase[s] = "draining"
    /\ ping_subscriptions' = [ping_subscriptions EXCEPT ![s] = Unsubscribed(@)]
    /\ info_subscriptions' = [info_subscriptions EXCEPT ![s] = Unsubscribed(@)]
    /\ stats_subscriptions' = [stats_subscriptions EXCEPT ![s] = Unsubscribed(@)]
    /\ mon_pending' = {d \in mon_pending : d.svc # s}
    /\ phase' = [phase EXCEPT ![s] = "stopped"]
    /\ wire' = <<>>
    /\ UNCHANGED <<api_prefix, stopped, started, ping_response_message,
                   endpoints, stats_endpoints, info_endpoints>>
    /\ UNCHANGED <<adding, add_result, num_msgs, seen, num_resets, cli_vars>>

\* the second gather of stop(), once every drain is over: every monitoring
\* subscription is unsubscribed, which discards what it still had queued;
\* stop() returns
stop_unsubscribe(s) ==
    /\ phase[s] = "draining"
    /\ \A e \in DOMAIN endpoints[s] : endpoints[s][e].sub.state # "draining"
    /\ ping_subscriptions' = [ping_subscriptions EXCEPT ![s] = Unsubscribed(@)]
    /\ info_subscriptions' = [info_subscriptions EXCEPT ![s] = Unsubscribed(@)]
    /\ stats_subscriptions' = [stats_subscriptions EXCEPT ![s] = Unsubscribed(@)]
    /\ mon_pending' = {d \in mon_pending : d.svc # s}
    /\ phase' = [phase EXCEPT ![s] = "stopped"]
    /\ wire' = <<>>
    /\ UNCHANGED <<api_prefix, stopped, started, ping_response_message,
                   endpoints, stats_endpoints, info_endpoints>>
    /\ UNCHANGED <<adding, add_result, num_msgs, seen, num_resets, cli_vars>>

\* ------------------------------------------------------------------ the bus
\* handles of the subscriptions the instances hold
SubHandles ==
    {[svc |-> s, kind |-> "mon", idx |-> i] : s \in Services, i \in 1..9}
    \cup {[svc |-> s, kind |-> "ep", idx |-> e] :
             s \in Services, e \in 1..(MaxEndpoints + 1)}

HasSub(h) ==
    IF h.kind = "mon" THEN h.idx \in DOMAIN MonitoringSubs(h.svc)
    ELSE h.idx \in DOMAIN endpoints[h.svc]

SubOf(h) ==
    IF h.kind = "mon" THEN MonitoringSubs(h.svc)[h.idx]
    ELSE endpoints[h.svc][h.idx].sub

\* the subscriptions a message published on subject is routed to: every
\* plain subscription on the subject and one member of every queue group
Matching(subject) ==
    {h \in SubHandles :
        HasSub(h) /\ SubOf(h).state = "active" /\ SubOf(h).subject = subject}

QueueGroupsOf(subject) == {SubOf(h).queue : h \in Matching(subject)} \ {""}

Routings(subject) ==
    LET m == Matching(subject)
        picks == {f \in [QueueGroupsOf(subject) -> m] :
                     \A g \in QueueGroupsOf(subject) : SubOf(f[g]).queue = g}
    IN  {{h \in m : SubOf(h).queue = ""} \cup Range(f) : f \in picks}

Created == {s \in Services : phase[s] # "absent"}

\* the subjects clients address monitoring requests to: those of the
\* instances that exist
MonitoringSubjects ==
    {get_internal_subject(v, None, None, API_PREFIX) : v \in ServiceVerb}
    \cup {get_internal_subject(v, ServiceConfig(s).name, None, API_PREFIX) :
            v \in ServiceVerb, s \in Created}
    \cup {get_internal_subject(v, ServiceConfig(s).name, token_hex(s), API_PREFIX) :
            v \in ServiceVerb, s \in Created}

\* the subjects every instance of every service listens on
FleetWideSubjects ==
    {get_internal_subject(v, None, None, API_PREFIX) : v \in ServiceVerb}

EndpointSubjects == {<<n>> : n \in EndpointNames}

\* the verb a monitoring subject names ("" for any other subject)
VerbOf(subject) ==
    IF Len(subject) >= 2 /\ subject[2] \in ServiceVerb THEN subject[2] ELSE ""

\* a client publishes one message, one of at most budget; the server routes
\* it at once.  A subscription whose queue is full takes no further message,
\* and clients have one monitoring request outstanding at a time.
client_publish(subject, reply, budget) ==
    /\ num_msgs < budget
    /\ mon_pending = {}
    /\ \E targets \in Routings(subject) :
        LET msg == [verb |-> VerbOf(subject), reply |-> reply,
                    after_stop |-> {s \in Services : phase[s] = "stopped"}]
        IN
        /\ \A t \in targets :
               t.kind = "ep" => Len(endpoints[t.svc][t.idx].pending) < MaxPending
        /\ num_msgs' = num_msgs + 1
        /\ mon_pending' = mon_pending \cup
               {[msg |-> msg, svc |-> h.svc, idx |-> h.idx] :
                   h \in {t \in targets : t.kind = "mon"}}
        /\ endpoints' = [s \in Services |->
               [e \in DOMAIN endpoints[s] |->
                   IF [svc |-> s, kind |-> "ep", idx |-> e] \in targets
                   THEN [endpoints[s][e] EXCEPT !.pending = Append(@, msg)]
                   ELSE endpoints[s][e]]]
    /\ wire' = <<>>
    /\ UNCHANGED <<api_prefix, stopped, started, ping_response_message,
                   stats_endpoints, info_endpoints, ping_subscriptions,
                   info_subscriptions, stats_subscriptions>>
    /\ UNCHANGED <<ctl_vars, seen, num_resets, cli_vars>>

\* a message an instance publishes on the reply subject of req
Reply(s, req, out) ==
    [svc |-> s, req |-> req, data |-> out.data, headers |-> out.headers]

Headers(msgs) == [i \in DOMAIN msgs |-> msgs[i].headers]

Bytes(b) == [bytes |-> b]

\* ------------------------------------------------------ monitoring handlers
handle_ping_request(s) == ping_response_message[s]

\* dumps(asdict(self._info))
handle_info_request(s) ==
    [name |-> ServiceConfig(s).name, id |-> token_hex(s),
     version |-> ServiceConfig(s).version,
     description |-> ServiceConfig(s).description,
     metadata |-> ServiceConfig(s).metadata,
     endpoints |-> [i \in DOMAIN info_endpoints[s] |->
                       endpoints[s][info_endpoints[s][i]].info],
     type |-> "io.nats.micro.v1.info_response"]

\* dumps(asdict(self._stats))
handle_stats_request(s) ==
    [name |-> ServiceConfig(s).name, id |-> token_hex(s),
     version |-> ServiceConfig(s).version, started |-> started[s],
     endpoints |-> [i \in DOMAIN stats_endpoints[s] |->
                       endpoints[s][stats_endpoints[s][i]].stats],
     metadata |-> ServiceConfig(s).metadata,
     type |-> "io.nats.micro.v1.stats_response"]

\* what the callback cb answers
monitoring_response(s, cb) ==
    CASE cb = "PING" -> handle_ping_request(s)
      [] cb = "INFO" -> handle_info_request(s)
      [] cb = "STATS" -> handle_stats_request(s)

\* the callback of a monitoring subscription answers the message queued in
\* that subscription
monitoring_callback(d) ==
    LET s == d.svc
        sub == MonitoringSubs(s)[d.idx]
        data == monitoring_response(s, sub.cb)
    IN  /\ d \in mon_pending
        /\ mon_pending' = mon_pending \ {d}
        /\ wire' = <<Reply(s, d.msg, [data |-> data, headers |-> NoHeaders])>>
        /\ seen' = seen \cup {[svc |-> s, verb |-> d.msg.verb, idx |-> d.idx,
                               data |-> data, resets |-> num_resets[s]]}
        /\ UNCHANGED <<svc_vars, ctl_vars, num_msgs, num_resets, cli_vars>>

\* ---------------------------------------------------------------- Request
\* Client.publish of the transport: an empty subject is refused
nc_publish(has_subject, data, headers) ==
    IF has_subject
    THEN [outcome |-> "published", data |-> Bytes(data), headers |-> headers]
    ELSE [outcome |-> "raised", data |-> Bytes(data), headers |-> headers]

\* a respond that publishes whatever the reply subject is
NatsRequest_respond_unguarded(reply, data, headers) ==
    nc_publish(reply, data, headers)

\* NatsRequest.respond: nothing is sent for a message without reply subject
NatsRequest_respond(reply, data, headers) ==
    IF ~reply
    THEN [outcome |-> "dropped", data |-> Bytes(data), headers |-> headers]
    ELSE nc_publish(reply, data, headers)

\* a respond_success / respond_error that starts from fresh headers whatever
\* the caller passed
headers_or_empty_fresh(headers) == EmptyDict

\* `if not headers: headers = {}`
headers_or_empty(headers) ==
    IF headers.is_none \/ DOMAIN headers.d = {} THEN EmptyDict ELSE headers.d

\* `data or b""`
data_or_empty(data) == IF data = None THEN "" ELSE data

respond_success(reply, code, data, headers) ==
    NatsRequest_respond(reply, data_or_empty(data),
        SomeHeaders(DictSet(headers_or_empty(headers),
                            "Nats-Service-Success-Code", py_str_int(code))))

respond_error(reply, code, description, data, headers) ==
    NatsRequest_respond(reply, data_or_empty(data),
        SomeHeaders(DictSet(DictSet(headers_or_empty(headers),
                                    "Nats-Service-Error", description),
                            "Nats-Service-Error-Code", py_str_int(code))))

\* the headers a caller hands to respond_success / respond_error
HeaderArgs ==
    {NoHeaders, SomeHeaders(EmptyDict),
     SomeHeaders([k \in {"X-Trace"} |-> "1"]),
     SomeHeaders([k \in {"X-Trace", "Nats-Service-Success-Code",
                         "Nats-Service-Error-Code"} |->
                     IF k = "X-Trace" THEN "1" ELSE "old"])}
StatusCodes == {200, 400, 500}
DataArgs == {None, "", "OK"}
Descriptions == {"Bad request", ""}

\* a caller outside the service calls respond_success on a request; the
\* respond calls the method issues are recorded
call_respond_success(reply, code, data, headers) ==
    /\ probe = NoCall
    /\ probe' = [fn |-> "respond_success", reply |-> reply, code |-> code,
                 data |-> data, headers |-> headers,
                 responds |-> <<respond_success(reply, code, data, headers)>>]
    /\ UNCHANGED <<svc_vars, ctl_vars, bus_vars, num_resets, rm, ctx>>

\* the same for respond_error
call_respond_error(reply, code, description, data, headers) ==
    /\ probe = NoCall
    /\ probe' = [fn |-> "respond_error", reply |-> reply, code |-> code,
                 description |-> description,
                 data |-> data, headers |-> headers,
                 responds |-> <<respond_error(reply, code, description, data,
                                              headers)>>]
    /\ UNCHANGED <<svc_vars, ctl_vars, bus_vars, num_resets, rm, ctx>>

\* ------------------------------------------- Service._create_handler.handler
\* line 693
stats_count_request(st) == [st EXCEPT !.num_requests = @ + 1]

\* an error path that counts the error and forgets its text
stats_record_error_untexted(st, exc) == [st EXCEPT !.num_errors = @ + 1]

\* lines 698-699
stats_record_error(st, exc) ==
    [st EXCEPT !.num_errors = @ + 1, !.last_error = py_str_exc(exc)]

\* lines 704-707; the division raises ZeroDivisionError when num_requests is
\* 0, after processing_time was updated
stats_record_time(st, dt) ==
    LET pt == st.processing_time + dt
    IN  IF st.num_requests = 0
        THEN [st EXCEPT !.processing_time = pt]
        ELSE [st EXCEPT !.processing_time = pt,
                        !.average_processing_time =
                            int_truediv(pt, st.num_requests)]

\* the subscription takes its oldest queued message and calls the handler,
\* which runs up to `await endpoint.config.handler(request)`
handler_begin(s, e) ==
    LET ep == endpoints[s][e]
    IN  /\ ep.pc = "idle"
        /\ ep.pending # <<>>
        /\ ep.sub.state \in {"active", "draining"}
        /\ endpoints' = [endpoints EXCEPT ![s][e] =
               [ep EXCEPT !.pending = Tail(@), !.pc = "handler",
                          !.msg = Head(ep.pending), !.responds = 0,
                          !.outcome = "none", !.sent = <<>>,
                          !.respond_raised = FALSE,
                          !.mw = [NoChain EXCEPT !.stage =
                                     IF ep.config.handler.wrapped
                                     THEN "entering" ELSE "bare"],
                          !.stats = stats_count_request(@)]]
        /\ seen' = Forget(s)
        /\ wire' = <<>>
        /\ UNCHANGED <<api_prefix, stopped, started, ping_response_message,
                       stats_endpoints, info_endpoints, ping_subscriptions,
                       info_subscriptions, stats_subscriptions>>
        /\ UNCHANGED <<ctl_vars, num_msgs, mon_pending, num_resets, cli_vars>>

RespondCalls == {"respond", "respond_success", "respond_error"}

\* what the user handler's call sends
user_respond_call(reply, how) ==
    CASE how = "respond" -> NatsRequest_respond(reply, "OK", NoHeaders)
      [] how = "respond_success" -> respond_success(reply, 200, "OK", NoHeaders)
      [] how = "respond_error" ->
            respond_error(reply, 400, "Bad request", None, NoHeaders)

\* the user handler calls one of the respond methods of its request
user_respond(s, e, how) ==
    LET ep == endpoints[s][e]
        out == user_respond_call(ep.msg.reply, how)
        published == IF out.outcome = "published"
                     THEN <<Reply(s, ep.msg, out)>> ELSE <<>>
    IN  /\ ep.pc = "handler"
        /\ ep.mw.stage = "bare"
        /\ ep.responds < MaxResponds
        /\ endpoints' = [endpoints EXCEPT ![s][e] =
               [ep EXCEPT !.responds = @ + 1,
                          !.sent = @ \o Headers(published),
                          !.respond_raised = @ \/ out.outcome = "raised"]]
        /\ wire' = published
        /\ UNCHANGED <<api_prefix, stopped, started, ping_response_message,
                       stats_endpoints, info_endpoints, ping_subscriptions,
                       info_subscriptions, stats_subscriptions>>
        /\ UNCHANGED <<ctl_vars, num_msgs, mon_pending, seen, num_resets, cli_vars>>

\* the handler of the endpoint returns: lines 704-707
handler_return(s, e, dt) ==
    LET ep == endpoints[s][e]
    IN  /\ ep.pc = "handler"
        /\ ep.mw.stage \in {"bare", "done"}
        /\ endpoints' = [endpoints EXCEPT ![s][e] =
               [ep EXCEPT !.pc = "idle", !.outcome = "returned",
                          !.msg = NoMsg, !.sent = <<>>,
                          !.mw = [NoChain EXCEPT !.user_returned = TRUE],
                          !.stats = stats_record_time(@, dt)]]
        /\ seen' = Forget(s)
        /\ wire' = <<>>
        /\ UNCHANGED <<api_prefix, stopped, started, ping_response_message,
                       stats_endpoints, info_endpoints, ping_subscriptions,
                       info_subscriptions, stats_subscriptions>>
        /\ UNCHANGED <<ctl_vars, num_msgs, mon_pending, num_resets, cli_vars>>

\* ------------------------------------------------- middleware chain at work
MiddlewareNames == <<"m1", "m2", "m3">>

\* get_response of a captured request nobody responded to
NoResponseSet == [type |-> "ValueError", arg |-> "No response was set"]

\* _CapturedRequest.respond: `Response(self._request, data, headers or {})`
CapturedRequest_respond(data, headers) ==
    [set |-> TRUE, data |-> data, headers |-> headers_or_empty(headers)]

\* Response.add_header
Response_add_header(response, key, value) ==
    [response EXCEPT !.headers = DictSet(@, key, value)]

\* forward of _chain_next_handler_and_middleware: the middleware is called
\* with the request and the frame below as its next, and calls next
middleware_enter(s, e) ==
    LET ep == endpoints[s][e]
        calls == ep.config.handler.calls
    IN  /\ ep.pc = "handler"
        /\ ep.mw.stage = "entering"
        /\ calls[ep.mw.depth + 1] # "handler"
        /\ endpoints' = [endpoints EXCEPT ![s][e] =
               [ep EXCEPT !.mw.depth = @ + 1,
                          !.mw.entered = Append(@, calls[ep.mw.depth + 1])]]
        /\ wire' = <<>>
        /\ UNCHANGED <<api_prefix, stopped, started, ping_response_message,
                       stats_endpoints, info_endpoints, ping_subscriptions,
                       info_subscriptions, stats_subscriptions>>
        /\ UNCHANGED <<ctl_vars, num_msgs, mon_pending, seen, num_resets, cli_vars>>

\* forward of _create_next_handler: the request is wrapped in a
\* _CapturedRequest and the coroutine of the user is called with it
forward_handler(s, e) ==
    LET ep == endpoints[s][e]
        calls == ep.config.handler.calls
    IN  /\ ep.pc = "handler"
        /\ ep.mw.stage = "entering"
        /\ calls[ep.mw.depth + 1] = "handler"
        /\ endpoints' = [endpoints EXCEPT ![s][e] =
               [ep EXCEPT !.mw.depth = @ + 1, !.mw.stage = "user",
                          !.mw.response = NoResponse]]
        /\ wire' = <<>>
        /\ UNCHANGED <<api_prefix, stopped, started, ping_response_message,
                       stats_endpoints, info_endpoints, ping_subscriptions,
                       info_subscriptions, stats_subscriptions>>
        /\ UNCHANGED <<ctl_vars, num_msgs, mon_pending, seen, num_resets, cli_vars>>

\* the user handler calls one of the respond methods of the captured
\* request: the data and headers that reach respond replace the response
captured_respond(s, e, how) ==
    LET ep == endpoints[s][e]
        args == user_respond_call(TRUE, how)
    IN  /\ ep.pc = "handler"
        /\ ep.mw.stage = "user"
        /\ ep.responds < MaxCaptured
        /\ endpoints' = [endpoints EXCEPT ![s][e] =
               [ep EXCEPT !.responds = @ + 1,
                          !.mw.response =
                              CapturedRequest_respond(args.data, args.headers)]]
        /\ wire' = <<>>
        /\ UNCHANGED <<api_prefix, stopped, started, ping_response_message,
                       stats_endpoints, info_endpoints, ping_subscriptions,
                       info_subscriptions, stats_subscriptions>>
        /\ UNCHANGED <<ctl_vars, num_msgs, mon_pending, seen, num_resets, cli_vars>>

\* the user handler returns to forward, which returns get_response(): the
\* captured response, or ValueError when there is none
forward_return(s, e) ==
    LET ep == endpoints[s][e]
    IN  /\ ep.pc = "handler"
        /\ ep.mw.stage = "user"
        /\ endpoints' = [endpoints EXCEPT ![s][e] =
               IF ep.mw.response.set
               THEN [ep EXCEPT !.mw.user_returned = TRUE,
                               !.mw.stage = "returning", !.mw.depth = @ - 1]
               ELSE [ep EXCEPT !.mw.user_returned = TRUE,
                               !.mw.stage = "raising"]]
        /\ wire' = <<>>
        /\ UNCHANGED <<api_prefix, stopped, started, ping_response_message,
                       stats_endpoints, info_endpoints, ping_subscriptions,
                       info_subscriptions, stats_subscriptions>>
        /\ UNCHANGED <<ctl_vars, num_msgs, mon_pending, seen, num_resets, cli_vars>>

\* a middleware gets the response of its next and returns it, as it is or
\* with a header of its own added
middleware_return(s, e, touch) ==
    LET ep == endpoints[s][e]
        calls == ep.config.handler.calls
    IN  /\ ep.pc = "handler"
        /\ ep.mw.stage = "returning"
        /\ ep.mw.depth >= 1
        /\ endpoints' = [endpoints EXCEPT ![s][e] =
               [ep EXCEPT !.mw.depth = @ - 1,
                          !.mw.response =
                              IF touch
                              THEN Response_add_header(@, calls[ep.mw.depth], "1")
                              ELSE @]]
        /\ wire' = <<>>
        /\ UNCHANGED <<api_prefix, stopped, started, ping_response_message,
                       stats_endpoints, info_endpoints, ping_subscriptions,
                       info_subscriptions, stats_subscriptions>>
        /\ UNCHANGED <<ctl_vars, num_msgs, mon_pending, seen, num_resets, cli_vars>>

\* unwrap of _create_final_handler: the response the chain returned goes
\* to the respond of the request it originates from
unwrap_respond(s, e) ==
    LET ep == endpoints[s][e]
        out == NatsRequest_respond(ep.msg.reply, ep.mw.response.data.bytes,
                                   SomeHeaders(ep.mw.response.headers))
        published == IF out.outcome = "published"
                     THEN <<Reply(s, ep.msg, out)>> ELSE <<>>
    IN  /\ ep.pc = "handler"
        /\ ep.mw.stage = "returning"
        /\ ep.mw.depth = 0
        /\ endpoints' = [endpoints EXCEPT ![s][e] =
               [ep EXCEPT !.mw.stage = "done",
                          !.sent = @ \o Headers(published)]]
        /\ wire' = published
        /\ UNCHANGED <<api_prefix, stopped, started, ping_response_message,
                       stats_endpoints, info_endpoints, ping_subscriptions,
                       info_subscriptions, stats_subscriptions>>
        /\ UNCHANGED <<ctl_vars, num_msgs, mon_pending, seen, num_resets, cli_vars>>

\* the error reply of the wrapper: lines 700-703
error_reply(reply) ==
    respond_error(reply, INTERNAL_ERROR_CODE, "Internal Server Error", None,
                  NoHeaders)

\* the user handler, or a frame of the chain around it, raises: lines 697-703.  Without reply subject
\* respond_error returns at once and the handler runs on to lines 704-707;
\* otherwise it awaits the publication
handler_raise(s, e, exc, dt) ==
    LET ep == endpoints[s][e]
        st == stats_record_error(ep.stats, exc)
        out == error_reply(ep.msg.reply)
    IN  /\ ep.pc = "handler"
        /\ \/ ep.mw.stage \in {"bare", "user"}
           \/ ep.mw.stage = "raising" /\ exc = NoResponseSet
        /\ endpoints' = [endpoints EXCEPT ![s][e] =
               IF out.outcome = "dropped"
               THEN [ep EXCEPT !.pc = "idle", !.outcome = "raised",
                               !.msg = NoMsg, !.sent = <<>>,
                               !.mw = [NoChain EXCEPT !.user_returned =
                                                          ep.mw.user_returned],
                               !.stats = stats_record_time(st, dt)]
               ELSE [ep EXCEPT !.pc = "error_reply", !.outcome = "raised",
                               !.mw = [NoChain EXCEPT !.user_returned =
                                                          ep.mw.user_returned],
                               !.stats = st]]
        /\ seen' = Forget(s)
        /\ wire' = <<>>
        /\ UNCHANGED <<api_prefix, stopped, started, ping_response_message,
                       stats_endpoints, info_endpoints, ping_subscriptions,
                       info_subscriptions, stats_subscriptions>>
        /\ UNCHANGED <<ctl_vars, num_msgs, mon_pending, num_resets, cli_vars>>

\* the publication of the error reply completes, or fails in the transport:
\* the failure leaves the handler before lines 704-707
error_reply_done(s, e, ok, dt) ==
    LET ep == endpoints[s][e]
        out == error_reply(ep.msg.reply)
        published == IF ok /\ out.outcome = "published"
                     THEN <<Reply(s, ep.msg, out)>> ELSE <<>>
    IN  /\ ep.pc = "error_reply"
        /\ endpoints' = [endpoints EXCEPT ![s][e] =
               IF ok
               THEN [ep EXCEPT !.pc = "idle",
                               !.msg = NoMsg, !.sent = <<>>,
                               !.stats = stats_record_time(@, dt)]
               ELSE [ep EXCEPT !.pc = "idle", !.outcome = "failed",
                               !.msg = NoMsg, !.sent = <<>>]]
        /\ seen' = IF ok THEN Forget(s) ELSE seen
        /\ wire' = published
        /\ UNCHANGED <<api_prefix, stopped, started, ping_response_message,
                       stats_endpoints, info_endpoints, ping_subscriptions,
                       info_subscriptions, stats_subscriptions>>
        /\ UNCHANGED <<ctl_vars, num_msgs, mon_pending, num_resets, cli_vars>>

\* ------------------------------------------------------------ request_many
\* `if max_wait:`, `if max_interval:`, `self.max_count and ...`
py_truthy(x) == ~x.is_none /\ x.v # 0

\* lines 29-30 and 244-245
default_max_wait(max_wait, max_interval) ==
    IF max_wait.is_none /\ max_interval.is_none
    THEN SomeInt(DEFAULT_MAX_WAIT) ELSE max_wait

\* asyncio.create_task(asyncio.sleep(duration)) under `if duration:`
sleep_task(duration, now) ==
    IF py_truthy(duration)
    THEN [armed |-> TRUE, due |-> now + duration.v, done |-> FALSE]
    ELSE NoTask

\* a call that never waits on max_wait
max_wait_task_missing(max_wait, now) == NoTask

\* lines 290-291 and 106-107
max_wait_task(max_wait, now) == sleep_task(max_wait, now)

\* a subscription without limit of messages
max_msgs_unlimited(max_count) == 0

\* `max_msgs=max_count or 0`
max_msgs_of(max_count) == py_or_int(max_count, 0)

\* nc.subscribe(inbox, max_msgs=...)
nc_subscribe(max_msgs) ==
    [active |-> TRUE, max_msgs |-> max_msgs, received |-> 0, queue |-> <<>>]

\* the transport hands a message to the subscription, and removes the
\* subscription with the max_msgs-th one; without subscription the message
\* is dropped
process_msg(sub, msg) ==
    IF ~sub.active THEN sub
    ELSE [sub EXCEPT !.received = @ + 1,
                     !.active = ~(sub.max_msgs > 0 /\ sub.received + 1 >= sub.max_msgs),
                     !.queue = Append(@, msg)]

\* unsubscribe: the subscription and what it still holds are gone
unsubscribe(sub) == [sub EXCEPT !.active = FALSE, !.queue = <<>>]

\* `loop.time() - last_received > interval`; when the two are a whole number
\* of half seconds apart, late tells whether the clock is past the interval
interval_exceeded(now, last_received, interval, late) ==
    \/ now - last_received > interval
    \/ now - last_received = interval /\ late

\* the values callers pass: durations and counts are positive (the code
\* reads 0 as not given)
WaitArgs == {NoInt} \cup {SomeInt(v) : v \in 1..MaxWait}
IntervalArgs == {NoInt} \cup {SomeInt(v) : v \in 1..MaxInterval}
CountArgs == {NoInt} \cup {SomeInt(v) : v \in 1..MaxCount}
ReplyData == {"reply"}

Running == rm.pc \in {"waiting", "consumer", "anext"}

\* the state both forms share once the subscription exists, the tasks are
\* created and the request is published
published_request(form, max_wait, max_interval, max_count, stop_on_sentinel) ==
    [NoRequestMany EXCEPT
        !.pc = IF form = "batch" THEN "waiting" ELSE "consumer",
        !.form = form,
        !.max_wait = default_max_wait(max_wait, max_interval),
        !.max_interval = max_interval,
        !.max_count = max_count,
        !.stop_on_sentinel = stop_on_sentinel,
        !.sub = nc_subscribe(max_msgs_of(max_count)),
        !.wait_task = max_wait_task(default_max_wait(max_wait, max_interval), 0),
        !.interval_task = sleep_task(max_interval, 0)]

\* request_many up to `await asyncio.wait(...)`: lines 244-313
request_many(max_wait, max_interval, max_count, stop_on_sentinel) ==
    /\ rm.pc = "idle"
    /\ rm' = published_request("batch", max_wait, max_interval, max_count, stop_on_sentinel)
    /\ UNCHANGED <<svc_vars, ctl_vars, bus_vars, num_resets, probe, ctx>>

\* RequestManyIterator.__init__ and __aenter__
RequestManyIterator_aenter(max_wait, max_interval, max_count, stop_on_sentinel) ==
    /\ rm.pc = "idle"
    /\ rm' = published_request("iterator", max_wait, max_interval, max_count, stop_on_sentinel)
    /\ UNCHANGED <<svc_vars, ctl_vars, bus_vars, num_resets, probe, ctx>>

\* ---------------------------------------------------------- Client.request
\* int(str) for the status codes in use
py_int_str(text) ==
    CASE text = "200" -> 200
      [] text = "400" -> 400
      [] text = "500" -> 500
      [] OTHER -> 0 - 1

\* dict.get(key, default)
dict_get(d, key, default) == IF key \in DOMAIN d THEN d[key] ELSE default

\* a request that takes any response with headers for an error
Client_request_any_headers(response) ==
    IF ~response.headers.is_none /\ DOMAIN response.headers.d # {}
    THEN [raised |-> "ServiceError", code |-> 0, description |-> "", data |-> Bytes("")]
    ELSE [raised |-> None, code |-> 0, description |-> "", data |-> response.data]

\* Client.request once the transport has the response: lines 48-57
Client_request(response) ==
    LET headers == response.headers
        error_code == dict_get(headers.d, "Nats-Service-Error-Code", None)
    IN  IF /\ ~headers.is_none /\ DOMAIN headers.d # {}
           /\ error_code # None /\ error_code # ""
        THEN [raised |-> "ServiceError", code |-> py_int_str(error_code),
              description |-> dict_get(headers.d, "Nats-Service-Error", ""),
              data |-> Bytes("")]
        ELSE [raised |-> None, code |-> 0, description |-> "",
              data |-> response.data]

\* what a handler answers with: respond, respond_success or respond_error
Responders == {"respond", "respond_success", "respond_error"}

\* the headers a handler passes along with its answer
ResponseHeaders == {NoHeaders, SomeHeaders([k \in {"X-Trace"} |-> "1"])}

\* the response a service puts on the reply subject of a request
service_response(responder, code, description, data, headers) ==
    CASE responder = "respond_success" -> respond_success(TRUE, code, data, headers)
      [] responder = "respond_error" ->
             respond_error(TRUE, code, description, data, headers)
      [] OTHER -> NatsRequest_respond(TRUE, data_or_empty(data), headers)

\* a client sends a request to a service and gets its response
call_request(responder, code, description, data, headers) ==
    LET response == service_response(responder, code, description, data, headers)
    IN  /\ probe = NoCall
        /\ probe' = [fn |-> "request", responder |-> responder, code |-> code,
                     description |-> description, response |-> response,
                     result |-> Client_request(response)]
        /\ UNCHANGED <<svc_vars, ctl_vars, bus_vars, num_resets, rm, ctx>>

\* ------------------------------------------------------------------ Context
\* the services a Context adds exist from the start, not started
InitContext == InitFleet(MaxContextServices, {API_PREFIX})

Finished == {"done", "raised", "cancelled"}

\* Context.enter: enter_async_context registers the exit of the resource
Context_enter(c, item) ==
    [c EXCEPT !.exit_stack = Append(@, item), !.entered = Append(@, item)]

\* _run_until_first_complete, line 264: one task for the coroutine, one for
\* self.wait()
create_tasks(c, doing) ==
    [c EXCEPT !.pc = "wait_for", !.doing = doing,
              !.coro = "running", !.waiter = "running"]

\* a check of the tasks that takes a cancelled task for a failed one
wait_for_outcome_of_any(coro) ==
    IF coro \in {"raised", "cancelled"} THEN "raised" ELSE "returned"

\* lines 274-278: cancelled tasks are skipped, the exception of a task is
\* raised
wait_for_outcome(coro) == IF coro = "raised" THEN "raised" ELSE "returned"

\* the `async with` block is left, by a return or by an exception
leave(c, error) == [c EXCEPT !.pc = "exiting", !.doing = "exit", !.error = error]

\* a run_forever that goes on to its next step whatever the cancel flag
after_wait_for_uncancelled(c) ==
    IF c.wf.outcome = "raised" THEN leave(c, TRUE)
    ELSE IF c.doing = "rf_connect" THEN create_tasks(c, "rf_setup")
         ELSE [c EXCEPT !.pc = "wait", !.doing = "rf_wait"]

\* what follows `await wait_for(...)`: Context.connect lines 39-40,
\* run_forever lines 220-225
after_wait_for(c) ==
    IF c.wf.outcome = "raised" THEN leave(c, TRUE)
    ELSE CASE c.doing = "connect" ->
                  [(IF ~c.cancel_event THEN Context_enter(c, ClientItem) ELSE c)
                      EXCEPT !.pc = "body", !.doing = "none",
                             !.connect_returned = TRUE]
           [] c.doing = "rf_connect" ->
                  IF c.cancel_event THEN leave(c, FALSE)
                  ELSE create_tasks(c, "rf_setup")
           [] OTHER ->
                  IF c.cancel_event THEN leave(c, FALSE)
                  ELSE [c EXCEPT !.pc = "wait", !.doing = "rf_wait"]

\* the services registered so far
EnteredServices == {it.id : it \in {i \in Range(ctx.entered) : i.kind = "service"}}

\* add_service is between `await self.enter(service)` and the append
PendingAdd == \E s \in Services : phase[s] = "started" /\ s \notin EnteredServices

\* the body of a program of the user is between two statements
InBody == ctx.mode = "script" /\ ctx.pc = "body" /\ ~PendingAdd

\* the coroutine that adds services runs: the body of the program, or
\* setup inside its task; services are added in the order 1, 2, ...
CanAddService(s) ==
    /\ InBody \/ (ctx.doing = "rf_setup" /\ ctx.coro = "running" /\ ~PendingAdd)
    /\ ctx.client = "connected"
    /\ s = Cardinality(EnteredServices) + 1

\* `async with ctx:` in a program of the user, or run_forever up to its
\* first wait: lines 214-219
Context_aenter(mode) ==
    /\ ctx.pc = "new"
    /\ ctx' = IF mode = "script" THEN [ctx EXCEPT !.mode = mode, !.pc = "body"]
              ELSE create_tasks([ctx EXCEPT !.mode = mode], "rf_connect")
    /\ UNCHANGED <<svc_vars, ctl_vars, bus_vars, num_resets, probe, rm>>

\* Context.cancel, called by the program or by the handler of a trapped
\* signal
Context_cancel ==
    /\ ctx.pc # "done"
    /\ ~ctx.cancel_event
    /\ ctx' = [ctx EXCEPT !.cancel_event = TRUE]
    /\ UNCHANGED <<svc_vars, ctl_vars, bus_vars, num_resets, probe, rm>>

\* Context.connect up to the wait of wait_for: line 38
Context_connect ==
    /\ InBody
    /\ ctx.client = "new" /\ ~ctx.connect_returned
    /\ ctx' = create_tasks(ctx, "connect")
    /\ UNCHANGED <<svc_vars, ctl_vars, bus_vars, num_resets, probe, rm>>

\* the coroutine wait_for runs ends by itself: connect has connected the
\* client, setup has returned, or either has raised
coro_ends(how) ==
    /\ ctx.coro = "running"
    /\ ~PendingAdd
    /\ ctx' = [ctx EXCEPT !.coro = how,
                          !.client = IF how = "done" /\ ctx.doing \in {"connect", "rf_connect"}
                                     THEN "connected" ELSE @]
    /\ UNCHANGED <<svc_vars, ctl_vars, bus_vars, num_resets, probe, rm>>

\* Context.wait inside wait_for: cancel_event.wait() returns
waiter_ends ==
    /\ ctx.waiter = "running"
    /\ ctx.cancel_event
    /\ ctx' = [ctx EXCEPT !.waiter = "done"]
    /\ UNCHANGED <<svc_vars, ctl_vars, bus_vars, num_resets, probe, rm>>

\* lines 266-270: the first wait returns, the tasks not done are cancelled
first_completed ==
    /\ ctx.pc = "wait_for"
    /\ ctx.coro \in Finished \/ ctx.waiter \in Finished
    /\ ctx' = [ctx EXCEPT !.pc = "wait_all",
                          !.coro = IF @ = "running" THEN "cancelling" ELSE @,
                          !.waiter = IF @ = "running" THEN "cancelling" ELSE @]
    /\ UNCHANGED <<svc_vars, ctl_vars, bus_vars, num_resets, probe, rm>>

\* a cancelled task takes its CancelledError and ends
task_cancelled(task) ==
    /\ ctx[task] = "cancelling"
    /\ task = "coro" => ~PendingAdd
    /\ ctx' = [ctx EXCEPT ![task] = "cancelled"]
    /\ UNCHANGED <<svc_vars, ctl_vars, bus_vars, num_resets, probe, rm>>

\* lines 272-278 and what the caller of wait_for does next
all_completed ==
    /\ ctx.pc = "wait_all"
    /\ ctx.coro \in Finished /\ ctx.waiter \in Finished
    /\ ctx' = after_wait_for([ctx EXCEPT !.wf =
                  [outcome |-> wait_for_outcome(ctx.coro),
                   coro |-> ctx.coro, waiter |-> ctx.waiter]])
    /\ UNCHANGED <<svc_vars, ctl_vars, bus_vars, num_resets, probe, rm>>

\* Context.enter of a resource of the program
Context_enter_resource(r) ==
    /\ InBody
    /\ Item("resource", r) \notin Range(ctx.entered)
    /\ ctx' = Context_enter(ctx, Item("resource", r))
    /\ UNCHANGED <<svc_vars, ctl_vars, bus_vars, num_resets, probe, rm>>

\* Context.add_service lines 73-75, once the service has started
Context_add_service(s) ==
    /\ phase[s] = "started"
    /\ s \notin EnteredServices
    /\ ctx' = [Context_enter(ctx, Item("service", s))
                 EXCEPT !.services = Append(@, s)]
    /\ UNCHANGED <<svc_vars, ctl_vars, bus_vars, num_resets, probe, rm>>

\* `await ctx.wait()` in the body of a program
Context_wait ==
    /\ InBody
    /\ ctx' = [ctx EXCEPT !.pc = "wait"]
    /\ UNCHANGED <<svc_vars, ctl_vars, bus_vars, num_resets, probe, rm>>

\* a pending wait() returns and the block ends: line 225
Context_wait_returns ==
    /\ ctx.pc = "wait"
    /\ ctx.cancel_event
    /\ ctx' = leave(ctx, FALSE)
    /\ UNCHANGED <<svc_vars, ctl_vars, bus_vars, num_resets, probe, rm>>

\* the body of a program ends, or raises
body_ends(error) ==
    /\ InBody
    /\ ctx' = leave(ctx, error)
    /\ UNCHANGED <<svc_vars, ctl_vars, bus_vars, num_resets, probe, rm>>

\* a stack that releases in the order of acquisition
exit_callbacks_pop_first(stack) == 1

\* AsyncExitStack.__aexit__: `self._exit_callbacks.pop()`, the latest first
exit_callbacks_pop(stack) == Len(stack)

\* the resource whose exit runs next
Exiting(item) ==
    /\ ctx.pc = "exiting"
    /\ ctx.exit_stack # <<>>
    /\ ctx.exit_stack[exit_callbacks_pop(ctx.exit_stack)] = item

Remove(stack, i) == SubSeq(stack, 1, i - 1) \o SubSeq(stack, i + 1, Len(stack))

\* one round of the loop of AsyncExitStack.__aexit__, called at line 178:
\* the exit of a resource has run (Service.stop for a service, close for
\* the client); when it raises, the loop goes on and the exception is raised
\* at the end
exit_callback(item, raises) ==
    /\ Exiting(item)
    /\ item.kind = "service" => phase[item.id] = "stopped" /\ ~raises
    /\ item.kind = "client" => ~raises
    /\ ctx' = [ctx EXCEPT
                  !.exit_stack = Remove(@, exit_callbacks_pop(@)),
                  !.exits = Append(@, item),
                  !.client = IF item.kind = "client" THEN "closed" ELSE @,
                  !.exit_raised = IF raises THEN @ \cup {item} ELSE @,
                  !.error = @ \/ raises]
    /\ UNCHANGED <<svc_vars, ctl_vars, bus_vars, num_resets, probe, rm>>

\* Context.__aexit__ lines 179-180, and the end of the program
Context_aexit ==
    /\ ctx.pc = "exiting"
    /\ ctx.exit_stack = <<>>
    /\ ctx' = [ctx EXCEPT !.pc = "done", !.services = <<>>,
                          !.outcome = IF ctx.error THEN "raised" ELSE "returned"]
    /\ UNCHANGED <<svc_vars, ctl_vars, bus_vars, num_resets, probe, rm>>

\* either form, told to stop on a sentinel and handed the inbox of the
\* replies: `reply_inbox` of lines 174 and 218, `reply_inbox or nc.new_inbox()`
request_many_reply_inbox(form, reply_inbox, max_wait, max_count) ==
    /\ rm.pc = "idle"
    /\ rm' = [published_request(form, max_wait, NoInt, max_count, TRUE)
                 EXCEPT !.inbox = IF reply_inbox = None THEN Inbox ELSE reply_inbox]
    /\ UNCHANGED <<svc_vars, ctl_vars, bus_vars, num_resets, probe, ctx>>

\* the time of the previous reply, or of the publication
PreviousArrival ==
    IF rm.arrivals = <<>> THEN 0 ELSE rm.arrivals[Len(rm.arrivals)].at

\* a responder answers on the inbox
reply_arrives(data) ==
    LET msg == [n |-> Len(rm.arrivals) + 1, subject |-> rm.inbox, data |-> data,
                at |-> rm.now, gap |-> rm.now - PreviousArrival]
    IN  /\ Running
        /\ Len(rm.arrivals) < MaxReplies
        /\ rm' = [rm EXCEPT !.arrivals = Append(@, msg),
                            !.sub = process_msg(@, msg)]
        /\ UNCHANGED <<svc_vars, ctl_vars, bus_vars, num_resets, probe, ctx>>

\* callback of request_many: lines 260-273
callback ==
    LET msg == Head(rm.sub.queue)
        responses == Append(rm.responses, msg)
    IN  /\ rm.form = "batch"
        /\ rm.pc = "waiting"
        /\ rm.sub.queue # <<>>
        /\ rm' = IF rm.stop_on_sentinel /\ msg.data = ""
                 THEN [rm EXCEPT !.sub.queue = Tail(@),
                                 !.last_received = rm.now, !.stamped = TRUE,
                                 !.event = TRUE]
                 ELSE [rm EXCEPT !.sub.queue = Tail(@),
                                 !.last_received = rm.now, !.stamped = TRUE,
                                 !.responses = responses,
                                 !.event = @ \/ (~rm.max_count.is_none
                                                 /\ Len(responses) = rm.max_count.v)]
        /\ UNCHANGED <<svc_vars, ctl_vars, bus_vars, num_resets, probe, ctx>>

\* the sleep of max_wait is over
max_wait_elapsed ==
    /\ Running
    /\ rm.wait_task.armed /\ ~rm.wait_task.done
    /\ rm.wait_task.due <= rm.now
    /\ rm' = [rm EXCEPT !.wait_task.done = TRUE]
    /\ UNCHANGED <<svc_vars, ctl_vars, bus_vars, num_resets, probe, ctx>>

\* check_interval of request_many wakes up: lines 296-302.  Its sleep began
\* after last_received was first read, so the clock is past the interval
\* unless a reply has set last_received since
check_interval(late) ==
    /\ rm.form = "batch"
    /\ rm.pc = "waiting"
    /\ late \/ rm.stamped
    /\ rm.interval_task.armed /\ ~rm.interval_task.done
    /\ rm.interval_task.due <= rm.now
    /\ rm' = IF interval_exceeded(rm.now, rm.last_received, rm.max_interval.v, late)
             THEN [rm EXCEPT !.event = TRUE, !.interval_task.done = TRUE]
             ELSE [rm EXCEPT !.interval_task.due = rm.now + rm.max_interval.v]
    /\ UNCHANGED <<svc_vars, ctl_vars, bus_vars, num_resets, probe, ctx>>

\* check_interval of the iterator wakes up: lines 112-119; nothing sets
\* _last_received after __init__
RequestManyIterator_check_interval ==
    /\ rm.form = "iterator"
    /\ Running
    /\ rm.interval_task.armed /\ ~rm.interval_task.done
    /\ rm.interval_task.due <= rm.now
    /\ rm' = IF interval_exceeded(rm.now, rm.last_received, rm.max_interval.v, TRUE)
             THEN IF ~rm.did_unsubscribe
                  THEN [rm EXCEPT !.did_unsubscribe = TRUE,
                                  !.sub = unsubscribe(@),
                                  !.interval_task.done = TRUE]
                  ELSE [rm EXCEPT !.interval_task.done = TRUE]
             ELSE [rm EXCEPT !.interval_task.due = rm.now + rm.max_interval.v]
    /\ UNCHANGED <<svc_vars, ctl_vars, bus_vars, num_resets, probe, ctx>>

\* asyncio.wait of request_many returns with the first task that is done;
\* the finally clause unsubscribes and the responses are returned
request_many_return ==
    /\ rm.form = "batch"
    /\ rm.pc = "waiting"
    /\ rm.event \/ rm.wait_task.done \/ rm.interval_task.done
    /\ rm' = [rm EXCEPT !.pc = "returned", !.sub = unsubscribe(@),
                        !.tasks_cancelled = TRUE, !.returned_at = rm.now]
    /\ UNCHANGED <<svc_vars, ctl_vars, bus_vars, num_resets, probe, ctx>>

\* __anext__ lines 59-66, then __aexit__: the iteration is over before any
\* wait
anext_exhausted ==
    /\ rm.form = "iterator"
    /\ rm.pc = "consumer"
    /\ \/ rm.did_unsubscribe
       \/ py_truthy(rm.max_count) /\ rm.total_received = rm.max_count.v
    /\ rm' = [rm EXCEPT !.pc = "returned", !.did_unsubscribe = TRUE,
                        !.sub = unsubscribe(@), !.tasks_cancelled = TRUE,
                        !.returned_at = rm.now]
    /\ UNCHANGED <<svc_vars, ctl_vars, bus_vars, num_resets, probe, ctx>>

\* __anext__ lines 68-74: the consumer, which asks for the next message as
\* soon as it has one, waits for a message or a task
anext_wait ==
    /\ rm.form = "iterator"
    /\ rm.pc = "consumer"
    /\ ~rm.did_unsubscribe
    /\ ~(py_truthy(rm.max_count) /\ rm.total_received = rm.max_count.v)
    /\ rm' = [rm EXCEPT !.pc = "anext"]
    /\ UNCHANGED <<svc_vars, ctl_vars, bus_vars, num_resets, probe, ctx>>

\* __anext__ lines 83-94: the pending task got a message
anext_yield ==
    LET msg == Head(rm.sub.queue)
    IN  /\ rm.form = "iterator"
        /\ rm.pc = "anext"
        /\ rm.sub.queue # <<>>
        /\ rm' = IF rm.stop_on_sentinel /\ msg.subject = "sentinel"
                 THEN [rm EXCEPT !.total_received = @ + 1,
                                 !.pc = "returned", !.did_unsubscribe = TRUE,
                                 !.sub = unsubscribe(@),
                                 !.tasks_cancelled = TRUE,
                                 !.returned_at = rm.now]
                 ELSE [rm EXCEPT !.total_received = @ + 1,
                                 !.sub.queue = Tail(@),
                                 !.yielded = Append(@, msg),
                                 !.pc = "consumer"]
        /\ UNCHANGED <<svc_vars, ctl_vars, bus_vars, num_resets, probe, ctx>>

\* __anext__ lines 75-79, then __aexit__: a task is done and the pending
\* one is not
anext_stop ==
    /\ rm.form = "iterator"
    /\ rm.pc = "anext"
    /\ rm.wait_task.done \/ rm.interval_task.done
    /\ rm' = [rm EXCEPT !.pc = "returned", !.sub = unsubscribe(@),
                        !.tasks_cancelled = TRUE, !.returned_at = rm.now]
    /\ UNCHANGED <<svc_vars, ctl_vars, bus_vars, num_resets, probe, ctx>>

\* a task or a coroutine of the caller can run now
Runnable ==
    \/ rm.wait_task.armed /\ ~rm.wait_task.done /\ rm.wait_task.due <= rm.now
    \/ rm.interval_task.armed /\ ~rm.interval_task.done
       /\ rm.interval_task.due <= rm.now
    \/ rm.event \/ rm.wait_task.done \/ rm.interval_task.done
    \/ rm.sub.queue # <<>>
    \/ rm.pc = "consumer"

\* half a second goes by, once nothing is left to run
tick ==
    /\ Running
    /\ ~Runnable
    /\ rm.now < MaxClock
    /\ rm' = [rm EXCEPT !.now = @ + 1]
    /\ UNCHANGED <<svc_vars, ctl_vars, bus_vars, num_resets, probe, ctx>>

\* an argument of a call: left out, or passed
Omitted == [omitted |-> TRUE, value |-> NoInt]
Passed(v) == [omitted |-> FALSE, value |-> v]
TimeoutArgs == {Omitted} \cup {Passed(v) : v \in {NoInt, SomeInt(MaxWait)}}

\* the value of a parameter with a default
py_param(arg, default) == IF arg.omitted THEN default ELSE arg.value

\* request_many: `max_wait: float | None = None`, lines 219-221 and 244-245
request_many_timeouts(max_wait, max_interval) ==
    [max_wait |-> default_max_wait(py_param(max_wait, NoInt),
                                   py_param(max_interval, NoInt)),
     max_interval |-> py_param(max_interval, NoInt)]

\* RequestManyIterator.__init__: lines 24-25 and 29-30
RequestManyIterator_timeouts(max_wait, max_interval) ==
    [max_wait |-> default_max_wait(py_param(max_wait, NoInt),
                                   py_param(max_interval, NoInt)),
     max_interval |-> py_param(max_interval, NoInt)]

\* request_many_iterator: `max_wait: float | None = 1`, handed on to
\* RequestManyIterator
request_many_iterator_timeouts(max_wait, max_interval) ==
    RequestManyIterator_timeouts(
        Passed(py_param(max_wait, SomeInt(ITERATOR_DEFAULT_MAX_WAIT))),
        Passed(py_param(max_interval, NoInt)))

EntryPoints == {"request_many", "RequestManyIterator", "request_many_iterator"}

\* a caller calls one of the entry points; the timeouts it runs with are
\* recorded
call_request_many(fn, max_wait, max_interval) ==
    /\ probe = NoCall
    /\ probe' = [fn |-> fn, max_wait |-> max_wait, max_interval |-> max_interval,
                 timeouts |->
                     CASE fn = "request_many" ->
                              request_many_timeouts(max_wait, max_interval)
                       [] fn = "RequestManyIterator" ->
                              RequestManyIterator_timeouts(max_wait, max_interval)
                       [] fn = "request_many_iterator" ->
                              request_many_iterator_timeouts(max_wait, max_interval)]
    /\ UNCHANGED <<svc_vars, ctl_vars, bus_vars, num_resets, rm, ctx>>

\* ------------------------------------------------- asyncapi: add_operation
\* the classes of the exceptions in use, each with its bases (most derived
\* first)
Mro ==
    [t \in {"ValueError", "ValidationError", "KeyError"} |->
        CASE t = "ValueError" -> <<"ValueError", "Exception", "BaseException">>
          [] t = "ValidationError" ->
                <<"ValidationError", "ValueError", "Exception", "BaseException">>
          [] t = "KeyError" ->
                <<"KeyError", "LookupError", "Exception", "BaseException">>]

\* an isinstance that holds for the class of the value only
isinstance_exact(exc, cls) == exc.type = cls

\* isinstance(e, err)
isinstance(exc, cls) == cls \in Range(Mro[exc.type])

\* what spec.request.type_adapter.decode raises on a malformed payload
DecodeErrors == {[type |-> "ValidationError", arg |-> "error"]}

\* what the handler of an operation raises
HandleErrors ==
    {[type |-> t, arg |-> "error"] : t \in {"ValueError", "KeyError"}}

NoRaise == [type |-> "none", arg |-> ""]

\* the classes catch tables name, and the formatters they carry: none, one
\* that returns str(err), one that returns an empty value
Origins == {"ValueError", "Exception"}
Formatters == {None, "str", "empty"}
CatchDescriptions == <<"Bad request", "Conflict", "Gone", "Teapot">>

\* ErrorHandler(origin, code, description, fmt), the i-th of a table
ErrorHandler(i, origin, fmt) ==
    [origin |-> origin, code |-> IF i % 2 = 1 THEN 400 ELSE 500,
     description |-> CatchDescriptions[i], fmt |-> fmt]

\* operation.spec.catch: the tables of at most MaxCatch entries
CatchTables ==
    UNION {{[i \in 1..n |-> ErrorHandler(i, o[i], f[i])] :
                o \in [1..n -> Origins], f \in [1..n -> Formatters]} :
           n \in 0..MaxCatch}

\* d[e.origin] = e on a dict kept as the list of its values in key order
dict_put(d, e) ==
    IF \E i \in DOMAIN d : d[i].origin = e.origin
    THEN [i \in DOMAIN d |-> IF d[i].origin = e.origin THEN e ELSE d[i]]
    ELSE Append(d, e)

RECURSIVE dict_comprehension(_, _)
dict_comprehension(d, entries) ==
    IF entries = <<>> THEN d
    ELSE dict_comprehension(dict_put(d, Head(entries)), Tail(entries))

\* line 60: {e.origin: e for e in operation.spec.catch}
errors_to_catch(catch) == dict_comprehension(<<>>, catch)

\* a lookup that catches nothing
catch_lookup_nothing(d, exc) == 0

\* lines 71-72: the first key the exception is an instance of (0: none)
catch_lookup(d, exc) ==
    IF \E i \in DOMAIN d : isinstance(exc, d[i].origin)
    THEN CHOOSE i \in DOMAIN d :
             /\ isinstance(exc, d[i].origin)
             /\ \A j \in 1..(i - 1) : ~isinstance(exc, d[j].origin)
    ELSE 0

\* error.fmt(e)
fmt_call(fmt, exc) == IF fmt = "str" THEN py_str_exc(exc) ELSE ""

\* spec.error.type_adapter.encode(data): the JSON text of a string
type_adapter_encode(data) == "'" \o data \o "'"

\* lines 73-80: the arguments of respond_error
catch_reply(error, exc) ==
    LET data == IF error.fmt # None THEN fmt_call(error.fmt, exc) ELSE None
    IN  [code |-> error.code, description |-> error.description,
         payload |-> IF data # None /\ data # ""
                     THEN type_adapter_encode(data) ELSE ""]

NoCatchReply == [code |-> 0, description |-> "", payload |-> ""]

\* line 60: add_operation reads the catch table of the operation
add_operation(catch) ==
    /\ probe = NoCall
    /\ probe' = [fn |-> "add_operation", catch |-> catch,
                 errors_to_catch |-> errors_to_catch(catch), pc |-> "declared",
                 request |-> 0, raised |-> NoRaise, phase |-> "none",
                 reply |-> NoCatchReply]
    /\ wire' = <<>>
    /\ UNCHANGED <<svc_vars, ctl_vars, num_msgs, mon_pending, seen,
                   num_resets, rm, ctx>>

\* the handler of lines 62-83 runs for the request the endpoint took
InOperation(s, e) ==
    /\ probe.fn = "add_operation"
    /\ endpoints[s][e].pc = "handler"
    /\ probe.request = endpoints[s][e].stats.num_requests

\* lines 63-69 and 102-103: the handler enters its try block and builds the
\* MicroMessage, which decodes the payload of the request
operation_handler(s, e, decoded) ==
    LET ep == endpoints[s][e]
    IN  /\ probe.fn = "add_operation"
        /\ ep.pc = "handler"
        /\ ep.mw.stage = "bare"
        /\ probe.request # ep.stats.num_requests
        /\ probe' = [probe EXCEPT
               !.request = ep.stats.num_requests,
               !.pc = IF decoded = NoRaise THEN "try" ELSE "except",
               !.raised = decoded,
               !.phase = IF decoded = NoRaise THEN "none" ELSE "decode",
               !.reply = NoCatchReply]
        /\ wire' = <<>>
        /\ UNCHANGED <<svc_vars, ctl_vars, num_msgs, mon_pending, seen,
                       num_resets, rm, ctx>>

\* line 64: operation.handle raises
operation_handle_raises(s, e, exc) ==
    /\ InOperation(s, e)
    /\ probe.pc = "try"
    /\ probe' = [probe EXCEPT !.pc = "except", !.raised = exc,
                              !.phase = "handle"]
    /\ wire' = <<>>
    /\ UNCHANGED <<svc_vars, ctl_vars, num_msgs, mon_pending, seen,
                   num_resets, rm, ctx>>

\* lines 70-82: the exception is an instance of a key of errors_to_catch
operation_respond_error(s, e) ==
    LET ep == endpoints[s][e]
        i == catch_lookup(probe.errors_to_catch, probe.raised)
        r == catch_reply(probe.errors_to_catch[i], probe.raised)
        out == respond_error(ep.msg.reply, r.code, r.description, r.payload,
                             NoHeaders)
        published == IF out.outcome = "published"
                     THEN <<Reply(s, ep.msg, out)>> ELSE <<>>
    IN  /\ InOperation(s, e)
        /\ probe.pc = "except"
        /\ i # 0
        /\ probe' = [probe EXCEPT !.pc = "replied", !.reply = r]
        /\ endpoints' = [endpoints EXCEPT ![s][e] =
               [ep EXCEPT !.responds = @ + 1,
                          !.sent = @ \o Headers(published),
                          !.respond_raised = @ \/ out.outcome = "raised"]]
        /\ wire' = published
        /\ UNCHANGED <<api_prefix, stopped, started, ping_response_message,
                       stats_endpoints, info_endpoints, ping_subscriptions,
                       info_subscriptions, stats_subscriptions>>
        /\ UNCHANGED <<ctl_vars, num_msgs, mon_pending, seen, num_resets,
                       rm, ctx>>

\* line 83: no key matches and the exception leaves the handler
Reraises(s, e) ==
    /\ InOperation(s, e)
    /\ probe.pc = "except"
    /\ catch_lookup(probe.errors_to_catch, probe.raised) = 0

\* the handler ends without exception: after operation.handle, or line 82
OperationReturns(s, e) ==
    InOperation(s, e) /\ probe.pc \in {"try", "replied"}

\* MicroMessage.respond, lines 122-130, called by the handler of the
\* operation: request.respond_success(status_code, response, headers)
MicroMessage_respond(s, e) ==
    /\ InOperation(s, e)
    /\ probe.pc = "try"
    /\ endpoints[s][e].responds = 0
    /\ user_respond(s, e, "respond_success")

\* ----------------------------------------------------------- Service.reset
\* reset() restarts the counters of every endpoint, takes `started` from the
\* clock (which has advanced since the instance was created) and rebuilds
\* the cached PING payload; everything else is preserved
Endpoint_reset(ep) == [ep EXCEPT !.stats = EndpointStats_new(ep.config)]

CountersChangedBy(s, eps) ==
    \E e \in DOMAIN endpoints[s] : eps[e].stats # endpoints[s][e].stats

reset(s, now) ==
    LET eps == [e \in DOMAIN endpoints[s] |-> Endpoint_reset(endpoints[s][e])]
    IN  /\ phase[s] \in {"started", "draining"}
        /\ num_resets[s] < MaxResets
        /\ now > started[s]
        /\ endpoints' = [endpoints EXCEPT ![s] = eps]
        /\ started' = [started EXCEPT ![s] = now]
        /\ ping_response_message' = [ping_response_message EXCEPT
               ![s] = PingInfo_new(token_hex(s), ServiceConfig(s))]
        /\ num_resets' = [num_resets EXCEPT ![s] = @ + 1]
        /\ seen' = IF CountersChangedBy(s, eps) THEN Forget(s) ELSE seen
        /\ wire' = <<>>
        /\ UNCHANGED <<api_prefix, stopped, stats_endpoints, info_endpoints,
                       ping_subscriptions, info_subscriptions,
                       stats_subscriptions>>
        /\ UNCHANGED <<ctl_vars, num_msgs, mon_pending, cli_vars>>

\* ---------------------------------------------------------------- Address
\* strings are lists of atoms: a name, a literal token, a value, or one of
\* "{", "}", "...", ".", "*", ">"
MATCH_ALL == ">"
MATCH_ONE == "*"
SEPARATOR == "."

\* str.replace(old, new) for an old of one atom
str_replace(s, old, new) == [i \in DOMAIN s |-> IF s[i] = old THEN new ELSE s[i]]

\* str.replace(old, new) for an old of several atoms and a new of one
RECURSIVE str_replace_sub(_, _, _)
str_replace_sub(s, old, new) ==
    IF Len(s) < Len(old) \/ old = <<>> THEN s
    ELSE IF SubSeq(s, 1, Len(old)) = old
         THEN <<new>> \o str_replace_sub(SubSeq(s, Len(old) + 1, Len(s)), old, new)
         ELSE <<Head(s)>> \o str_replace_sub(Tail(s), old, new)

\* str.split(".")
RECURSIVE str_split(_)
str_split(s) ==
    IF \A i \in DOMAIN s : s[i] # SEPARATOR THEN <<s>>
    ELSE LET i == CHOOSE i \in DOMAIN s :
                      s[i] = SEPARATOR /\ \A j \in 1..(i - 1) : s[j] # SEPARATOR
         IN  <<SubSeq(s, 1, i - 1)>> \o str_split(SubSeq(s, i + 1, Len(s)))

\* ".".join(tokens)
RECURSIVE str_join(_)
str_join(tokens) ==
    IF tokens = <<>> THEN <<>>
    ELSE IF Len(tokens) = 1 THEN tokens[1]
    ELSE tokens[1] \o <<SEPARATOR>> \o str_join(Tail(tokens))

\* pattern.finditer: the non-overlapping matches of \{(.*?)\}, each with its
\* start and end as Python counts them
RECURSIVE finditer(_, _)
finditer(s, from) ==
    IF \A i \in from..Len(s) :
           s[i] # "{" \/ \A j \in (i + 1)..Len(s) : s[j] # "}"
    THEN <<>>
    ELSE LET i == CHOOSE i \in from..Len(s) :
                      /\ s[i] = "{" /\ \E j \in (i + 1)..Len(s) : s[j] = "}"
                      /\ \A k \in from..(i - 1) :
                             s[k] # "{" \/ \A j \in (k + 1)..Len(s) : s[j] # "}"
             j == CHOOSE j \in (i + 1)..Len(s) :
                      s[j] = "}" /\ \A k \in (i + 1)..(j - 1) : s[k] # "}"
         IN  <<[start |-> i - 1, end |-> j]>> \o finditer(s, j + 1)

\* list.index(x): -1 stands for the ValueError
list_index(list, x) ==
    IF \E i \in DOMAIN list : list[i] = x
    THEN (CHOOSE i \in DOMAIN list :
              list[i] = x /\ \A j \in 1..(i - 1) : list[j] # x) - 1
    ELSE -1

NoWildcard == [is_none |-> TRUE, name |-> <<>>, pos |-> 0]

\* Placeholders(typ, subject="")
Placeholders_new ==
    [raised |-> None, subject |-> <<>>, mapping |-> EmptyDict,
     wildcard |-> NoWildcard, is_wildcard |-> FALSE]

\* lines 251-255
placeholder_pos(subject, placeholder) ==
    list_index(str_split(str_replace(subject, "...", MATCH_ONE)),
               str_replace(placeholder, "...", MATCH_ALL))

\* lines 217-259: one match of the loop
from_subject_match(acc, subject, match) ==
    LET placeholder == SubSeq(subject, match.start + 1, match.end)
        inner == SubSeq(placeholder, 2, Len(placeholder) - 1)
        all == inner # <<>> /\ inner[Len(inner)] = "..."
        name == IF all THEN SubSeq(inner, 1, Len(inner) - 1) ELSE inner
        is_wildcard == acc.is_wildcard \/ all
        next_char == IF match.end + 1 <= Len(subject)
                     THEN subject[match.end + 1] ELSE ""
        previous_char == IF match.start # 0 THEN subject[match.start] ELSE ""
        pos == placeholder_pos(subject, placeholder)
        sanitized == str_replace_sub(acc.subject, placeholder,
                                     IF all THEN MATCH_ALL ELSE MATCH_ONE)
    IN  IF acc.raised # None THEN acc
        ELSE IF all /\ acc.is_wildcard
        THEN [acc EXCEPT !.raised = "Only one match_all wildcard is allowed"]
        ELSE IF name = <<>>
        THEN [acc EXCEPT !.raised = "Placeholder cannot be empty"]
        ELSE IF \E i \in DOMAIN name : name[i] = SEPARATOR
        THEN [acc EXCEPT !.raised = "Invalid placeholder name"]
        ELSE IF previous_char # "" /\ previous_char # SEPARATOR
        THEN [acc EXCEPT !.raised = "Placeholder must occupy whole token"]
        ELSE IF next_char # "" /\ next_char # SEPARATOR
        THEN [acc EXCEPT !.raised = "Placeholder must occupy whole token"]
        ELSE IF pos = -1
        THEN [acc EXCEPT !.raised = "is not in list"]
        ELSE IF is_wildcard
        THEN [acc EXCEPT !.subject = sanitized, !.is_wildcard = TRUE,
                         !.wildcard = [is_none |-> FALSE, name |-> name,
                                       pos |-> pos]]
        ELSE [acc EXCEPT !.subject = sanitized,
                         !.mapping = DictSet(@, name, pos)]

RECURSIVE from_subject_loop(_, _, _)
from_subject_loop(acc, subject, matches) ==
    IF matches = <<>> THEN acc
    ELSE from_subject_loop(from_subject_match(acc, subject, Head(matches)),
                           subject, Tail(matches))

\* Placeholders.from_subject
Placeholders_from_subject(subject) ==
    from_subject_loop([Placeholders_new EXCEPT !.subject = subject], subject,
                      finditer(subject, 1))

\* Address._verify for a parameters class with the given fields
Address_verify(placeholders, parameters_fields) ==
    IF \E f \in parameters_fields :
           /\ f \notin DOMAIN placeholders.mapping
           /\ ~(~placeholders.wildcard.is_none /\ placeholders.wildcard.name = f)
    THEN "Missing parameter"
    ELSE IF \E f \in DOMAIN placeholders.mapping : f \notin parameters_fields
    THEN "Unknown parameter"
    ELSE IF /\ ~placeholders.wildcard.is_none
            /\ placeholders.wildcard.name \notin parameters_fields
    THEN "Unknown parameter"
    ELSE None

\* Address.__init__
Address_init(subject, parameters_fields) ==
    LET placeholders == Placeholders_from_subject(subject)
    IN  IF placeholders.raised # None THEN placeholders
        ELSE [placeholders EXCEPT
                 !.raised = Address_verify(placeholders, parameters_fields)]

\* list[pos] = value, on a list indexed from 0
list_set(list, pos, value) ==
    [i \in DOMAIN list |-> IF i = pos + 1 THEN value ELSE list[i]]

\* Address.get_subject(parameters)
Address_get_subject(placeholders, parameters) ==
    LET tokens == str_split(placeholders.subject)
        mapped == [i \in DOMAIN tokens |->
                      IF \E n \in DOMAIN placeholders.mapping :
                             placeholders.mapping[n] = i - 1
                      THEN parameters[CHOOSE n \in DOMAIN placeholders.mapping :
                                          placeholders.mapping[n] = i - 1]
                      ELSE tokens[i]]
    IN  IF placeholders.wildcard.is_none THEN str_join(mapped)
        ELSE LET values == parameters[placeholders.wildcard.name]
             IN  str_join(list_set(mapped, placeholders.wildcard.pos, values[1])
                          \o Tail(values))

\* Placeholders.extract_parameters(subject)
Placeholders_extract_parameters(placeholders, subject) ==
    LET tokens == str_split(subject)
        names == DOMAIN placeholders.mapping \cup
                 (IF placeholders.wildcard.is_none THEN {}
                  ELSE {placeholders.wildcard.name})
    IN  [n \in names |->
            IF ~placeholders.wildcard.is_none /\ n = placeholders.wildcard.name
            THEN SubSeq(tokens, placeholders.wildcard.pos + 1, Len(tokens))
            ELSE tokens[placeholders.mapping[n] + 1]]

\* the tokens of the templates: a literal, {name}, {name...}
Literal(t) == <<t>>
One(n) == <<"{", n, "}">>
All(n) == <<"{", n, "...", "}">>
ParamNames == <<"bar", "baz", "qux", "quux">>
ParamTokens == {"abc", "123"}

\* name of a placeholder token, as its field is called
FieldOf(token) == <<token[2]>>

\* the valid templates of at most MaxTokens tokens: whole-token placeholders
\* with distinct names, at most one {name...}, in the last position
Templates ==
    UNION {{t \in [1..n -> {Literal("foo")}
                            \cup {One(ParamNames[i]) : i \in 1..(MaxTokens - 1)}
                            \cup {All(ParamNames[MaxTokens])}] :
               /\ \A i, j \in 1..n : (i # j /\ Len(t[i]) > 1) => t[i] # t[j]
               /\ \A i \in 1..n : Len(t[i]) = 4 => i = n} :
           n \in 1..MaxTokens}

FieldsOf(template) ==
    {FieldOf(template[i]) : i \in {j \in DOMAIN template : Len(template[j]) > 1}}

\* the values of the parameters type of a template: one token for a {name}
\* field, a non-empty list of tokens for the {name...} field
ParamValues(template) ==
    LET multi == {FieldOf(template[i]) :
                     i \in {j \in DOMAIN template : Len(template[j]) = 4}}
        single == FieldsOf(template) \ multi
        lists == UNION {[1..n -> {<<v>> : v \in ParamTokens}] : n \in 1..(MaxTokens - 1)}
    IN  {[f \in FieldsOf(template) |-> IF f \in multi THEN m[f] ELSE o[f]] :
            o \in [single -> {<<v>> : v \in ParamTokens}], m \in [multi -> lists]}

\* Address(subject, Params)
call_Address(template) ==
    /\ probe = NoCall
    /\ probe' = [fn |-> "Address", template |-> template, pc |-> "init",
                 placeholders |-> Address_init(str_join(template),
                                               FieldsOf(template)),
                 parameters |-> EmptyDict, subject |-> <<>>,
                 params |-> EmptyDict]
    /\ wire' = <<>>
    /\ UNCHANGED <<svc_vars, ctl_vars, num_msgs, mon_pending, seen,
                   num_resets, rm, ctx>>

\* address.get_subject(p)
call_get_subject(parameters) ==
    /\ probe.fn = "Address"
    /\ probe.pc = "init"
    /\ probe.placeholders.raised = None
    /\ parameters \in ParamValues(probe.template)
    /\ probe' = [probe EXCEPT
           !.pc = "subject", !.parameters = parameters,
           !.subject = Address_get_subject(probe.placeholders, parameters)]
    /\ wire' = <<>>
    /\ UNCHANGED <<svc_vars, ctl_vars, num_msgs, mon_pending, seen,
                   num_resets, rm, ctx>>

\* address.get_params(subject)
call_get_params ==
    /\ probe.fn = "Address"
    /\ probe.pc = "subject"
    /\ probe' = [probe EXCEPT
           !.pc = "params",
           !.params = Placeholders_extract_parameters(probe.placeholders,
                                                      probe.subject)]
    /\ wire' = <<>>
    /\ UNCHANGED <<svc_vars, ctl_vars, num_msgs, mon_pending, seen,
                   num_resets, rm, ctx>>

\* ---------------------------------------------------------- register_service
\* ServiceMounter.__aenter__ is between line 206 and line 225: the service
\* has started and is not yet handed to the exit stack
Mounting(s) ==
    /\ ctx.pc = "body"
    /\ phase[s] = "started"
    /\ s \notin EnteredServices

\* lines 213-224: the subscription of an endpoint fails (lines 663-669 of
\* Service.add_endpoint), the error leaves __aenter__, enter (line 98 of
\* Context.register_service) and the body of the program.  __aexit__ of the
\* mounter (lines 227-229) is not called for an __aenter__ that raised, and
\* the mounter is not on the exit stack
register_service_fails(s) ==
    /\ Mounting(s)
    /\ adding[s].pending
    /\ adding' = [adding EXCEPT ![s] = NoAdd]
    /\ add_result' = [add_result EXCEPT ![s] = "SubscribeError"]
    /\ ctx' = leave(ctx, TRUE)
    /\ wire' = <<>>
    /\ UNCHANGED <<svc_vars, phase, num_msgs, mon_pending, seen, num_resets,
                   probe, rm>>

\* lines 225 and 98-100: every endpoint is registered
Mounted(s) ==
    /\ Mounting(s)
    /\ ~adding[s].pending
    /\ Len(endpoints[s]) = MaxMountEndpoints

\* ------------------------------------------------------------ models: copy
\* objects live in a heap, a list of cells; a reference is the index of a
\* cell and 0 is None.  A cell is a dataclass instance (scalars: the fields
\* that hold immutable values; ref: the fields that hold a dict or a list),
\* a dict (entries) or a list (items)
Cell(kind, scalars, ref, entries, items) ==
    [kind |-> kind, scalars |-> scalars, ref |-> ref, entries |-> entries,
     items |-> items]

alloc(h, cell) == [h |-> Append(h, cell), a |-> Len(h) + 1]

new_dict(h, entries) == alloc(h, Cell("dict", EmptyDict, EmptyDict, entries, <<>>))
new_list(h, items) == alloc(h, Cell("list", EmptyDict, EmptyDict, EmptyDict, items))

\* a copy that hands out the dict of the original
dict_copy_shared(h, a) == [h |-> h, a |-> a]

\* `None if d is None else d.copy()`, and `d.copy()` of a dict
dict_copy(h, a) == IF a = 0 THEN [h |-> h, a |-> 0] ELSE alloc(h, h[a])

\* dataclasses.replace(self, **changes): a new instance, the fields not in
\* changes taken from self as they are
replace(h, a, changes) ==
    alloc(h, [h[a] EXCEPT !.ref = [n \in DOMAIN @ |->
                 IF n \in DOMAIN changes THEN changes[n] ELSE @[n]]])

\* EndpointStats.copy, lines 77-78
EndpointStats_copy(h, a) ==
    LET data == dict_copy(h, h[a].ref["data"])
    IN  replace(data.h, a, [n \in {"data"} |-> data.a])

\* EndpointInfo.copy, lines 155-159
EndpointInfo_copy(h, a) ==
    LET metadata_dict == dict_copy(h, h[a].ref["metadata"])
    IN  replace(metadata_dict.h, a, [n \in {"metadata"} |-> metadata_dict.a])

\* [ep.copy() for ep in self.endpoints]: the heap and the new items
RECURSIVE copy_each(_, _, _)
copy_each(h, items, done) ==
    IF items = <<>> THEN [h |-> h, items |-> done]
    ELSE LET ep == IF h[Head(items)].kind = "EndpointStats"
                   THEN EndpointStats_copy(h, Head(items))
                   ELSE EndpointInfo_copy(h, Head(items))
         IN  copy_each(ep.h, Tail(items), Append(done, ep.a))

\* ServiceStats.copy lines 110-115, ServiceInfo.copy lines 192-197
Service_copy(h, a) ==
    LET eps == copy_each(h, h[h[a].ref["endpoints"]].items, <<>>)
        endpoint_list == new_list(eps.h, eps.items)
        metadata_dict == dict_copy(endpoint_list.h, h[a].ref["metadata"])
    IN  replace(metadata_dict.h, a,
                [n \in {"endpoints", "metadata"} |->
                    IF n = "endpoints" THEN endpoint_list.a ELSE metadata_dict.a])

\* PingInfo.copy, lines 226-227
PingInfo_copy(h, a) ==
    LET metadata_dict == dict_copy(h, h[a].ref["metadata"])
    IN  replace(metadata_dict.h, a, [n \in {"metadata"} |-> metadata_dict.a])

\* obj.copy()
model_copy(h, a) ==
    IF h[a].kind = "PingInfo" THEN PingInfo_copy(h, a) ELSE Service_copy(h, a)

\* the value of an object as == of dataclasses, dicts and lists compares it
RECURSIVE Value(_, _)
Value(h, a) ==
    IF a = 0 THEN [kind |-> "None"]
    ELSE [kind |-> h[a].kind, scalars |-> h[a].scalars,
          ref |-> [n \in DOMAIN h[a].ref |-> Value(h, h[a].ref[n])],
          entries |-> h[a].entries,
          items |-> [i \in DOMAIN h[a].items |-> Value(h, h[a].items[i])]]

TheMetadata == [k \in {"the"} |-> "metadata"]

\* an endpoint entry of a ServiceStats or ServiceInfo, with or without its
\* dict
new_endpoint(h, kind, with_dict) ==
    LET d == IF with_dict THEN new_dict(h, TheMetadata) ELSE [h |-> h, a |-> 0]
    IN  alloc(d.h, Cell(kind, [n \in {"name", "subject"} |-> "endpoint1"],
                        [n \in {IF kind = "EndpointStats" THEN "data"
                                ELSE "metadata"} |-> d.a],
                        EmptyDict, <<>>))

RECURSIVE new_endpoints(_, _, _, _, _)
new_endpoints(h, kind, n, with_dict, done) ==
    IF n = 0 THEN [h |-> h, items |-> done]
    ELSE LET ep == new_endpoint(h, kind, with_dict)
         IN  new_endpoints(ep.h, kind, n - 1, with_dict, Append(done, ep.a))

\* the objects of TestMicroModels, with n endpoint_list
new_model(kind, n, with_dict, with_metadata) ==
    LET eps == new_endpoints(<<>>, IF kind = "ServiceStats" THEN "EndpointStats"
                                   ELSE "EndpointInfo", n, with_dict, <<>>)
        endpoint_list == new_list(eps.h, eps.items)
        metadata_dict == IF with_metadata THEN new_dict(endpoint_list.h, TheMetadata)
                    ELSE [h |-> endpoint_list.h, a |-> 0]
        scalars == [f \in {"id", "name", "version"} |->
                       CASE f = "id" -> "123" [] f = "name" -> "service1"
                         [] OTHER -> "0.0.1"]
    IN  IF kind = "PingInfo"
        THEN alloc(metadata_dict.h, Cell(kind, scalars,
                       [f \in {"metadata"} |-> metadata_dict.a], EmptyDict, <<>>))
        ELSE alloc(metadata_dict.h, Cell(kind, scalars,
                       [f \in {"endpoints", "metadata"} |->
                           IF f = "endpoints" THEN endpoint_list.a ELSE metadata_dict.a],
                       EmptyDict, <<>>))

ModelKinds == {"PingInfo", "ServiceInfo", "ServiceStats"}

\* obj2 = obj.copy() for an object as the service holds it
call_copy(kind, n, with_dict, with_metadata) ==
    /\ probe = NoCall
    /\ kind = "PingInfo" => n = 0 /\ ~with_dict
    /\ kind # "ServiceStats" => with_metadata
    /\ n = 0 => ~with_dict
    /\ LET obj == new_model(kind, n, with_dict, with_metadata)
           obj2 == model_copy(obj.h, obj.a)
       IN  probe' = [fn |-> "copy", heap |-> obj2.h, original |-> obj.a,
                     copy |-> obj2.a, before |-> Value(obj.h, obj.a),
                     mutations |-> 0]
    /\ wire' = <<>>
    /\ UNCHANGED <<svc_vars, ctl_vars, num_msgs, mon_pending, seen,
                   num_resets, rm, ctx>>

\* the objects a holder of the copy reaches: the copy, its dicts and lists,
\* its endpoint entries and their dicts
RECURSIVE Reach(_, _)
Reach(h, a) ==
    IF a = 0 THEN {}
    ELSE {a} \cup UNION {Reach(h, h[a].ref[n]) : n \in DOMAIN h[a].ref}
             \cup UNION {Reach(h, h[a].items[i]) : i \in DOMAIN h[a].items}

\* one change made through the copy: obj2.field = value, d[key] = value on
\* one of its dicts, list.append(entry) or list.pop() on its endpoint list
mutate_copy(change) ==
    /\ probe.fn = "copy"
    /\ probe.mutations < MaxMutations
    /\ \E a \in Reach(probe.heap, probe.copy) :
       LET cell == probe.heap[a]
           ep == new_endpoint(probe.heap, "EndpointInfo", FALSE)
       IN  CASE change = "field" ->
                  /\ cell.kind \notin {"dict", "list"}
                  /\ probe' = [probe EXCEPT !.mutations = @ + 1,
                                   !.heap[a].scalars["name"] = "other"]
             [] change = "entry" ->
                  /\ cell.kind = "dict"
                  /\ probe' = [probe EXCEPT !.mutations = @ + 1,
                                   !.heap[a].entries =
                                       DictSet(@, "the", "other")]
             [] change = "append" ->
                  /\ cell.kind = "list"
                  /\ probe' = [probe EXCEPT !.mutations = @ + 1,
                                   !.heap = [ep.h EXCEPT ![a].items =
                                                Append(@, ep.a)]]
             [] change = "pop" ->
                  /\ cell.kind = "list"
                  /\ cell.items # <<>>
                  /\ probe' = [probe EXCEPT !.mutations = @ + 1,
                                   !.heap[a].items =
                                       SubSeq(@, 1, Len(@) - 1)]
    /\ wire' = <<>>
    /\ UNCHANGED <<svc_vars, ctl_vars, num_msgs, mon_pending, seen,
                   num_resets, rm, ctx>>

\* ------------------------------------------------- models: from_response
\* the fields of the models that have no default (the endpoint list of a
\* ServiceInfo or ServiceStats is kept beside the other keys of a response)
RequiredFields(cls) ==
    CASE cls = "PingInfo" -> {"name", "id", "version", "metadata"}
      [] cls = "ServiceInfo" -> {"name", "id", "version", "description", "metadata"}
      [] cls = "ServiceStats" -> {"name", "id", "version", "started"}
      [] cls = "EndpointInfo" -> {"name", "subject"}
      [] cls = "EndpointStats" ->
             {"name", "subject", "num_requests", "num_errors", "last_error",
              "processing_time", "average_processing_time"}

\* the fields that have a default, with it
FieldDefaults(cls) ==
    CASE cls = "PingInfo" -> [f \in {"type"} |-> "io.nats.micro.v1.ping_response"]
      [] cls = "ServiceInfo" -> [f \in {"type"} |-> "io.nats.micro.v1.info_response"]
      [] cls = "ServiceStats" ->
             [f \in {"metadata", "type"} |->
                 IF f = "type" THEN "io.nats.micro.v1.stats_response" ELSE None]
      [] cls = "EndpointInfo" -> [f \in {"metadata", "queue_group"} |-> None]
      [] cls = "EndpointStats" -> [f \in {"queue_group", "data"} |-> None]

fields(cls) == RequiredFields(cls) \cup DOMAIN FieldDefaults(cls)

NoObject == [raised |-> None, fields |-> EmptyDict, endpoints |-> <<>>]

\* cls(**params): TypeError for a keyword that is no field and for a field
\* without default that is not given
dataclass_new(cls, params) ==
    IF ~(DOMAIN params \subseteq fields(cls)) \/ ~(RequiredFields(cls) \subseteq DOMAIN params)
    THEN [NoObject EXCEPT !.raised = "TypeError"]
    ELSE [NoObject EXCEPT !.fields = [f \in fields(cls) |->
              IF f \in DOMAIN params THEN params[f] ELSE FieldDefaults(cls)[f]]]

\* Base.from_response, lines 11-21
Base_from_response(cls, resp) ==
    dataclass_new(cls, [f \in fields(cls) \cap DOMAIN resp |-> resp[f]])

\* the endpoint entries of a response, decoded one by one: the list, or the
\* error of the first entry that fails
RECURSIVE decode_each(_, _, _)
decode_each(cls, entries, done) ==
    IF entries = <<>> THEN [raised |-> None, endpoints |-> done]
    ELSE LET ep == IF cls = "EndpointStats"
                   THEN Base_from_response(cls, Head(entries))
                   ELSE dataclass_new(cls, Head(entries))
         IN  IF ep.raised # None THEN [raised |-> ep.raised, endpoints |-> <<>>]
             ELSE decode_each(cls, Tail(entries), Append(done, ep))

\* PingInfo.from_response (Base), ServiceStats.from_response lines 123-131
\* (EndpointStats.from_response(ep) for each entry) and
\* ServiceInfo.from_response lines 205-213 (EndpointInfo(**ep) for each)
from_response(cls, resp) ==
    LET obj == Base_from_response(cls, resp.fields)
        eps == decode_each(IF cls = "ServiceStats" THEN "EndpointStats"
                           ELSE "EndpointInfo", resp.endpoints, <<>>)
    IN  IF obj.raised # None \/ cls = "PingInfo" THEN obj
        ELSE IF eps.raised # None THEN [NoObject EXCEPT !.raised = eps.raised]
        ELSE [obj EXCEPT !.endpoints = eps.endpoints]

UnknownKeys == {"extra"}

\* a JSON object with the fields of cls that have no default, any of those
\* that have one and any unknown key
Objects(cls) ==
    {[k \in RequiredFields(cls) \cup opt \cup unknown |->
         IF k \in DOMAIN FieldDefaults(cls) THEN "given" ELSE k] :
       opt \in SUBSET DOMAIN FieldDefaults(cls), unknown \in SUBSET UnknownKeys}

RECURSIVE EndpointLists(_, _)
EndpointLists(cls, n) ==
    IF n = 0 THEN {<<>>}
    ELSE EndpointLists(cls, n - 1) \cup
         {Append(l, ep) : l \in {x \in EndpointLists(cls, n - 1) : Len(x) = n - 1},
                          ep \in Objects(cls)}

\* the responses of a service to PING, INFO and STATS as a client may
\* receive them
Responses(cls) ==
    {[fields |-> top, endpoints |-> eps] :
       top \in Objects(cls),
       eps \in CASE cls = "PingInfo" -> {<<>>}
                 [] cls = "ServiceInfo" -> EndpointLists("EndpointInfo", MaxDecodeEndpoints)
                 [] cls = "ServiceStats" -> EndpointLists("EndpointStats", MaxDecodeEndpoints)}

\* the response without the keys the models do not know
known(cls, d) == [k \in DOMAIN d \cap fields(cls) |-> d[k]]

without_unknown(cls, resp) ==
    [fields |-> known(cls, resp.fields),
     endpoints |-> [i \in DOMAIN resp.endpoints |->
         known(IF cls = "ServiceStats" THEN "EndpointStats" ELSE "EndpointInfo",
               resp.endpoints[i])]]

\* cls.from_response(json.loads(res.data)), client.py lines 273-298
call_from_response(cls, resp) ==
    /\ probe = NoCall
    /\ probe' = [fn |-> "from_response", cls |-> cls, resp |-> resp,
                 result |-> from_response(cls, resp)]
    /\ wire' = <<>>
    /\ UNCHANGED <<svc_vars, ctl_vars, num_msgs, mon_pending, seen,
                   num_resets, rm, ctx>>

\* ----------------------------------------------------- Service.stop again
\* Endpoint.stop when `await self._sub.drain()` raises: the first gather of
\* stop() raises with it (no return_exceptions), stop() ends there and the
\* second gather is never reached; the other drains go on
Endpoint_stop_fails(s, e) ==
    /\ phase[s] = "draining"
    /\ endpoints[s][e].sub.state = "draining"
    /\ endpoints' = [endpoints EXCEPT ![s][e].sub.state = "failed"]
    /\ phase' = [phase EXCEPT ![s] = "stop raised"]
    /\ wire' = <<>>
    /\ UNCHANGED <<api_prefix, stopped, started, ping_response_message,
                   stats_endpoints, info_endpoints, ping_subscriptions,
                   info_subscriptions, stats_subscriptions>>
    /\ UNCHANGED <<adding, add_result, num_msgs, mon_pending, seen, num_resets, cli_vars>>

\* sub.unsubscribe() of nats: BadSubscriptionError for a subscription that
\* was unsubscribed before
sub_unsubscribe_raises(sub) == sub.state = "closed"

\* stop() of a service whose stop() has returned: the flag is set again and
\* the first gather runs ep.stop() for every endpoint, which drains those
\* that still have their subscription
stop_again(s) ==
    /\ phase[s] = "stopped"
    /\ probe = NoCall
    /\ stopped' = [stopped EXCEPT ![s] = TRUE]
    /\ endpoints' = [endpoints EXCEPT ![s] =
           [e \in DOMAIN @ |-> IF @[e].sub.state = "active"
                               THEN [@[e] EXCEPT !.sub.state = "draining"]
                               ELSE @[e]]]
    /\ probe' = [fn |-> "stop", service |-> s, pc |-> "endpoints",
                 drains |-> Cardinality({e \in DOMAIN endpoints[s] :
                                endpoints[s][e].sub.state = "active"}),
                 unsubscribes |-> 0, raised |-> None]
    /\ wire' = <<>>
    /\ UNCHANGED <<api_prefix, started, ping_response_message, stats_endpoints,
                   info_endpoints, ping_subscriptions, info_subscriptions,
                   stats_subscriptions>>
    /\ UNCHANGED <<ctl_vars, num_msgs, mon_pending, seen, num_resets, rm, ctx>>

\* its second gather: sub.unsubscribe() for every subscription of the three
\* lists, which still hold the subscriptions of start()
stop_again_unsubscribe(s) ==
    /\ probe.fn = "stop"
    /\ probe.service = s
    /\ probe.pc = "endpoints"
    /\ \A e \in DOMAIN endpoints[s] : endpoints[s][e].sub.state # "draining"
    /\ probe' = [probe EXCEPT
           !.pc = "returned",
           !.unsubscribes = Len(MonitoringSubs(s)),
           !.raised = IF \E i \in DOMAIN MonitoringSubs(s) :
                            sub_unsubscribe_raises(MonitoringSubs(s)[i])
                      THEN "BadSubscriptionError" ELSE None]
    /\ ping_subscriptions' = [ping_subscriptions EXCEPT ![s] = Unsubscribed(@)]
    /\ info_subscriptions' = [info_subscriptions EXCEPT ![s] = Unsubscribed(@)]
    /\ stats_subscriptions' = [stats_subscriptions EXCEPT ![s] = Unsubscribed(@)]
    /\ wire' = <<>>
    /\ UNCHANGED <<api_prefix, stopped, started, ping_response_message,
                   endpoints, stats_endpoints, info_endpoints>>
    /\ UNCHANGED <<ctl_vars, num_msgs, mon_pending, seen, num_resets, rm, ctx>>

\* -------------------------------------------- request many: the other exits
\* the finally clause of request_many (lines 314-321) and __aexit__ of the
\* iterator (lines 130-137): the tasks that are not done are cancelled, the
\* pending receive with them, and the inbox is unsubscribed
aexit(r, pc) ==
    [r EXCEPT !.pc = pc, !.sub = unsubscribe(@), !.tasks_cancelled = TRUE,
              !.returned_at = r.now]

\* request_many when `await nc.publish(...)` raises (line 306): inside the
\* try, so the finally clause runs
request_many_publish_raises(max_wait, max_interval, max_count) ==
    /\ rm.pc = "idle"
    /\ rm' = aexit(published_request("batch", max_wait, max_interval, max_count, FALSE),
                   "raised")
    /\ UNCHANGED <<svc_vars, ctl_vars, bus_vars, num_resets, probe, ctx>>

\* __aenter__ when `await self.nc.publish(...)` raises (lines 122-124): the
\* subscription and the tasks exist, and `async with` does not call
\* __aexit__ when __aenter__ raises
RequestManyIterator_aenter_publish_raises(max_wait, max_interval, max_count) ==
    /\ rm.pc = "idle"
    /\ rm' = [published_request("iterator", max_wait, max_interval, max_count, FALSE)
                EXCEPT !.pc = "raised"]
    /\ UNCHANGED <<svc_vars, ctl_vars, bus_vars, num_resets, probe, ctx>>

\* the caller of request_many is cancelled in `await asyncio.wait(...)`
request_many_cancelled ==
    /\ rm.form = "batch"
    /\ rm.pc = "waiting"
    /\ rm' = aexit(rm, "cancelled")
    /\ UNCHANGED <<svc_vars, ctl_vars, bus_vars, num_resets, probe, ctx>>

\* the caller of the iterator is cancelled inside its `async with`, in
\* __anext__ or between two messages: __aexit__ runs
RequestManyIterator_cancelled ==
    /\ rm.form = "iterator"
    /\ rm.pc \in {"consumer", "anext"}
    /\ rm' = aexit(rm, "cancelled")
    /\ UNCHANGED <<svc_vars, ctl_vars, bus_vars, num_resets, probe, ctx>>

\* ----------------------------------------------------------- specifications
EndpointIds == 1..(MaxEndpoints + 1)

\* one running instance under any traffic
Next ==
    \/ \E s \in Services : start(s)
    \/ \E s \in Services, n \in EndpointNames, q \in QueueGroupArgs :
           add_endpoint(s, n, UserHandler, NoSubject, q, NoInt, NoInt, MaxEndpoints)
    \/ \E s \in Services : add_endpoint_subscribed(s)
    \/ \E subject \in MonitoringSubjects :
           client_publish(subject, TRUE, MaxRequests)
    \/ \E subject \in EndpointSubjects, reply \in BOOLEAN :
           client_publish(subject, reply, MaxRequests)
    \/ \E d \in mon_pending : monitoring_callback(d)
    \/ \E s \in Services, e \in EndpointIds :
           e \in DOMAIN endpoints[s] /\ handler_begin(s, e)
    \/ \E s \in Services, e \in EndpointIds, how \in RespondCalls :
           e \in DOMAIN endpoints[s] /\ user_respond(s, e, how)
    \/ \E s \in Services, e \in EndpointIds, dt \in Elapsed :
           e \in DOMAIN endpoints[s] /\ handler_return(s, e, dt)
    \/ \E s \in Services, e \in EndpointIds, exc \in Exceptions, dt \in Elapsed :
           e \in DOMAIN endpoints[s] /\ handler_raise(s, e, exc, dt)
    \/ \E s \in Services, e \in EndpointIds, ok \in BOOLEAN, dt \in Elapsed :
           e \in DOMAIN endpoints[s] /\ error_reply_done(s, e, ok, dt)

Spec == Init /\ [][Next]_vars

\* one running instance and the requests to its endpoints
NextHandler ==
    \/ \E s \in Services : start(s)
    \/ \E s \in Services, n \in EndpointNames, q \in QueueGroupArgs :
           add_endpoint(s, n, UserHandler, NoSubject, q, NoInt, NoInt, MaxEndpoints)
    \/ \E s \in Services : add_endpoint_subscribed(s)
    \/ \E subject \in EndpointSubjects, reply \in BOOLEAN :
           client_publish(subject, reply, MaxHandlerRequests)
    \/ \E s \in Services, e \in EndpointIds :
           e \in DOMAIN endpoints[s] /\ handler_begin(s, e)
    \/ \E s \in Services, e \in EndpointIds, how \in RespondCalls :
           e \in DOMAIN endpoints[s] /\ user_respond(s, e, how)
    \/ \E s \in Services, e \in EndpointIds, dt \in Elapsed :
           e \in DOMAIN endpoints[s] /\ handler_return(s, e, dt)
    \/ \E s \in Services, e \in EndpointIds, exc \in Exceptions, dt \in Elapsed :
           e \in DOMAIN endpoints[s] /\ handler_raise(s, e, exc, dt)
    \/ \E s \in Services, e \in EndpointIds, ok \in BOOLEAN, dt \in Elapsed :
           e \in DOMAIN endpoints[s] /\ error_reply_done(s, e, ok, dt)

SpecHandler == Init /\ [][NextHandler]_vars

\* one instance from start() to the end of stop(), endpoints added at any
\* time
NextLifecycle ==
    \/ \E s \in Services : start(s)
    \/ \E s \in Services, n \in EndpointNames, q \in QueueGroupArgs :
           add_endpoint(s, n, UserHandler, NoSubject, q, NoInt, NoInt, MaxEndpoints)
    \/ \E s \in Services : add_endpoint_subscribed(s)
    \/ \E s \in Services : stop(s)
    \/ \E s \in Services, e \in EndpointIds :
           e \in DOMAIN endpoints[s] /\ Endpoint_stop(s, e)
    \/ \E s \in Services : stop_unsubscribe(s)
    \/ \E subject \in MonitoringSubjects :
           client_publish(subject, TRUE, MaxLifecycleRequests)
    \/ \E subject \in EndpointSubjects, reply \in BOOLEAN :
           client_publish(subject, reply, MaxLifecycleRequests)
    \/ \E d \in mon_pending : monitoring_callback(d)
    \/ \E s \in Services, e \in EndpointIds :
           e \in DOMAIN endpoints[s] /\ handler_begin(s, e)
    \/ \E s \in Services, e \in EndpointIds :
           e \in DOMAIN endpoints[s] /\ user_respond(s, e, "respond")
    \/ \E s \in Services, e \in EndpointIds, dt \in Elapsed :
           e \in DOMAIN endpoints[s] /\ handler_return(s, e, dt)
    \/ \E s \in Services, e \in EndpointIds, exc \in Exceptions, dt \in Elapsed :
           e \in DOMAIN endpoints[s] /\ handler_raise(s, e, exc, dt)
    \/ \E s \in Services, e \in EndpointIds, ok \in BOOLEAN, dt \in Elapsed :
           e \in DOMAIN endpoints[s] /\ error_reply_done(s, e, ok, dt)

SpecLifecycle == InitLifecycle /\ [][NextLifecycle]_vars

\* Service.reset for one instance: every endpoint with fresh statistics
reset_endpoints(s) ==
    [e \in DOMAIN endpoints[s] |-> Endpoint_reset(endpoints[s][e])]

\* a reset of the context that stops after its first service
reset_targets_first(services) ==
    IF services = <<>> THEN {} ELSE {services[1]}

\* `for service in self.services`
reset_targets(services) == Range(services)

\* Context.reset: lines 102-105, Service.reset once per service, without
\* any await
Context_reset(now) ==
    LET targets == reset_targets(ctx.services)
        changed == {s \in targets : CountersChangedBy(s, reset_endpoints(s))}
    IN  /\ InBody
        /\ targets # {}
        /\ \A s \in targets : num_resets[s] < MaxResets /\ now > started[s]
        /\ endpoints' = [s \in Services |->
               IF s \in targets THEN reset_endpoints(s) ELSE endpoints[s]]
        /\ started' = [s \in Services |->
               IF s \in targets THEN now ELSE started[s]]
        /\ ping_response_message' = [s \in Services |->
               IF s \in targets THEN PingInfo_new(token_hex(s), ServiceConfig(s))
               ELSE ping_response_message[s]]
        /\ num_resets' = [s \in Services |->
               IF s \in targets THEN num_resets[s] + 1 ELSE num_resets[s]]
        /\ seen' = {x \in seen : x.svc \notin changed \/ x.verb = "PING"}
        /\ wire' = <<>>
        /\ UNCHANGED <<api_prefix, stopped, stats_endpoints, info_endpoints,
                       ping_subscriptions, info_subscriptions,
                       stats_subscriptions>>
        /\ UNCHANGED <<ctl_vars, num_msgs, mon_pending, cli_vars>>

\* the subject of the STATS requests addressed to one instance
StatsSubjects ==
    {get_internal_subject("STATS", ServiceConfig(s).name, token_hex(s), API_PREFIX) :
        s \in Created}

\* one running instance whose statistics are reset at any time; the
\* requests to its endpoints carry no reply subject
NextReset ==
    \/ \E s \in Services : start(s)
    \/ \E s \in Services, n \in EndpointNames, q \in QueueGroupArgs :
           add_endpoint(s, n, UserHandler, NoSubject, q, NoInt, NoInt, MaxEndpoints)
    \/ \E s \in Services : add_endpoint_subscribed(s)
    \/ \E subject \in MonitoringSubjects :
           client_publish(subject, TRUE, MaxResetRequests)
    \/ \E subject \in EndpointSubjects :
           client_publish(subject, FALSE, MaxResetRequests)
    \/ \E d \in mon_pending : monitoring_callback(d)
    \/ \E s \in Services, e \in EndpointIds :
           e \in DOMAIN endpoints[s] /\ handler_begin(s, e)
    \/ \E s \in Services, e \in EndpointIds, dt \in Elapsed :
           e \in DOMAIN endpoints[s] /\ handler_return(s, e, dt)
    \/ \E s \in Services, e \in EndpointIds, exc \in Exceptions, dt \in Elapsed :
           e \in DOMAIN endpoints[s] /\ handler_raise(s, e, exc, dt)
    \/ \E s \in Services, now \in Times : reset(s, now)

SpecReset == Init /\ [][NextReset]_vars

\* the whole fleet: instances of one service on one bus, each registering
\* the shared endpoint once
NextFleet ==
    \/ \E s \in Services : start(s)
    \/ \E s \in Services, n \in EndpointNames, q \in QueueGroupArgs :
           endpoints[s] = <<>>
           /\ add_endpoint(s, n, UserHandler, NoSubject, q, NoInt, NoInt, MaxEndpoints)
    \/ \E s \in Services : add_endpoint_subscribed(s)
    \/ \E subject \in FleetWideSubjects :
           client_publish(subject, TRUE, MaxFleetRequests)
    \/ \E subject \in EndpointSubjects, reply \in BOOLEAN :
           client_publish(subject, reply, MaxFleetRequests)
    \/ \E d \in mon_pending : monitoring_callback(d)
    \/ \E s \in Services, e \in EndpointIds :
           e \in DOMAIN endpoints[s] /\ handler_begin(s, e)
    \/ \E s \in Services, e \in EndpointIds :
           e \in DOMAIN endpoints[s] /\ user_respond(s, e, "respond")
    \/ \E s \in Services, e \in EndpointIds, dt \in Elapsed :
           e \in DOMAIN endpoints[s] /\ handler_return(s, e, dt)

SpecFleet == InitAll /\ [][NextFleet]_vars

\* the names of the endpoints of the runs with groups
GroupEndpointNames == {"endpoint1", "endpoint2"}

\* one running instance whose endpoints are added directly and through
\* nested groups, and the requests to them
NextGroups ==
    \/ \E s \in Services : start(s)
    \/ \E s \in Services, n \in GroupEndpointNames :
           add_endpoint(s, n, UserHandler, NoSubject, None, NoInt, NoInt, MaxGroupEndpoints)
    \/ \E s \in Services, k \in 1..MaxGroups, n \in GroupEndpointNames :
           Group_add_endpoint(s, NestedGroups(k), n, UserHandler, NoSubject, None, NoInt,
                              NoInt)
    \/ \E s \in Services : add_endpoint_subscribed(s)
    \/ \E s \in Services, e \in 1..MaxGroupEndpoints :
           /\ e \in DOMAIN endpoints[s]
           /\ client_publish(endpoints[s][e].config.subject, FALSE,
                             MaxGroupRequests)
    \/ \E s \in Services, e \in 1..MaxGroupEndpoints :
           e \in DOMAIN endpoints[s] /\ handler_begin(s, e)
    \/ \E s \in Services, e \in 1..MaxGroupEndpoints, dt \in Elapsed :
           e \in DOMAIN endpoints[s] /\ handler_return(s, e, dt)

SpecGroups == Init /\ [][NextGroups]_vars

\* the lists of middlewares an endpoint is declared with
MiddlewareLists ==
    {SubSeq(MiddlewareNames, 1, k) : k \in 0..MaxMiddlewares}
        \cup {<<MiddlewareNames[2], MiddlewareNames[1]>>}

\* one running instance whose only endpoint has a handler behind
\* middlewares
NextMiddleware ==
    \/ \E s \in Services : start(s)
    \/ \E s \in Services, n \in EndpointNames, ms \in MiddlewareLists :
           /\ endpoints[s] = <<>>
           /\ add_endpoint(s, n, apply_middlewares(UserHandler, ms), NoSubject, None,
                           NoInt, NoInt, MaxEndpoints)
    \/ \E s \in Services : add_endpoint_subscribed(s)
    \/ \E n \in EndpointNames, reply \in BOOLEAN :
           client_publish(<<n>>, reply, MaxMiddlewareRequests)
    \/ \E s \in Services, e \in EndpointIds :
           e \in DOMAIN endpoints[s] /\ handler_begin(s, e)
    \/ \E s \in Services, e \in EndpointIds, how \in RespondCalls :
           e \in DOMAIN endpoints[s] /\ user_respond(s, e, how)
    \/ \E s \in Services, e \in EndpointIds :
           e \in DOMAIN endpoints[s] /\ middleware_enter(s, e)
    \/ \E s \in Services, e \in EndpointIds :
           e \in DOMAIN endpoints[s] /\ forward_handler(s, e)
    \/ \E s \in Services, e \in EndpointIds, how \in RespondCalls :
           e \in DOMAIN endpoints[s] /\ captured_respond(s, e, how)
    \/ \E s \in Services, e \in EndpointIds :
           e \in DOMAIN endpoints[s] /\ forward_return(s, e)
    \/ \E s \in Services, e \in EndpointIds, touch \in BOOLEAN :
           e \in DOMAIN endpoints[s] /\ middleware_return(s, e, touch)
    \/ \E s \in Services, e \in EndpointIds :
           e \in DOMAIN endpoints[s] /\ unwrap_respond(s, e)
    \/ \E s \in Services, e \in EndpointIds, dt \in Elapsed :
           e \in DOMAIN endpoints[s] /\ handler_return(s, e, dt)
    \/ \E s \in Services, e \in EndpointIds, dt \in Elapsed :
           e \in DOMAIN endpoints[s]
           /\ \E exc \in Exceptions \cup {NoResponseSet} :
                  handler_raise(s, e, exc, dt)
    \/ \E s \in Services, e \in EndpointIds, ok \in BOOLEAN, dt \in Elapsed :
           e \in DOMAIN endpoints[s] /\ error_reply_done(s, e, ok, dt)

SpecMiddleware == Init /\ [][NextMiddleware]_vars

\* one request-many call that does not stop on a sentinel, the replies to
\* it and the clock
NextRequestMany ==
    \/ \E max_wait \in WaitArgs, max_interval \in IntervalArgs,
          max_count \in CountArgs :
           request_many(max_wait, max_interval, max_count, FALSE)
    \/ \E max_wait \in WaitArgs, max_interval \in IntervalArgs,
          max_count \in CountArgs :
           RequestManyIterator_aenter(max_wait, max_interval, max_count, FALSE)
    \/ \E data \in ReplyData : reply_arrives(data)
    \/ callback
    \/ max_wait_elapsed
    \/ \E late \in BOOLEAN : check_interval(late)
    \/ RequestManyIterator_check_interval
    \/ request_many_return
    \/ anext_exhausted
    \/ anext_wait
    \/ anext_yield
    \/ anext_stop
    \/ tick

SpecRequestMany == Init /\ [][NextRequestMany]_vars

\* the event loop runs whatever is ready
FairRequestMany == SpecRequestMany /\ WF_vars(NextRequestMany)

\* one request-many call that stops on a sentinel; responders answer with
\* a body or with an empty one
NextSentinel ==
    \/ \E form \in {"batch", "iterator"}, reply_inbox \in {None, "sentinel"},
          max_wait \in WaitArgs, max_count \in CountArgs :
           request_many_reply_inbox(form, reply_inbox, max_wait, max_count)
    \/ \E data \in ReplyData \cup {""} : reply_arrives(data)
    \/ callback
    \/ max_wait_elapsed
    \/ request_many_return
    \/ anext_exhausted
    \/ anext_wait
    \/ anext_yield
    \/ anext_stop
    \/ tick

SpecSentinel == Init /\ [][NextSentinel]_vars

\* a program with a Context: its own `async with` block, or run_forever
NextContext ==
    \/ \E mode \in {"script", "run_forever"} : Context_aenter(mode)
    \/ Context_cancel
    \/ Context_connect
    \/ \E how \in {"done", "raised"} : coro_ends(how)
    \/ waiter_ends
    \/ first_completed
    \/ \E task \in {"coro", "waiter"} : task_cancelled(task)
    \/ all_completed
    \/ \E r \in 1..MaxResources : Context_enter_resource(r)
    \/ \E s \in Services : CanAddService(s) /\ start(s)
    \/ \E s \in Services : Context_add_service(s)
    \/ Context_wait
    \/ Context_wait_returns
    \/ \E error \in BOOLEAN : body_ends(error)
    \/ \E s \in Services : Exiting(Item("service", s)) /\ stop(s)
    \/ \E s \in Services : stop_unsubscribe(s)
    \/ \E item \in Range(ctx.exit_stack), raises \in BOOLEAN :
           exit_callback(item, raises)
    \/ Context_aexit

SpecContext == InitContext /\ [][NextContext]_vars

\* the event loop runs what is ready, and the program is cancelled at last
FairContext == SpecContext /\ WF_vars(NextContext)

\* the program has added its services and their endpoints
SetupDone ==
    /\ Len(ctx.services) = MaxContextServices
    /\ \A s \in Range(ctx.services) : endpoints[s] # <<>>

\* a program that connects, adds services with one endpoint each and
\* resets them through its Context while clients send requests to the
\* services it has set up
NextContextReset ==
    \/ Context_aenter("script")
    \/ Context_connect
    \/ coro_ends("done")
    \/ first_completed
    \/ task_cancelled("waiter")
    \/ all_completed
    \/ \E s \in Services : CanAddService(s) /\ start(s)
    \/ \E s \in Services : Context_add_service(s)
    \/ \E s \in Range(ctx.services), n \in EndpointNames, q \in QueueGroupArgs :
           /\ endpoints[s] = <<>>
           /\ add_endpoint(s, n, UserHandler, NoSubject, q, NoInt, NoInt, MaxEndpoints)
    \/ \E s \in Services : add_endpoint_subscribed(s)
    \/ \E subject \in StatsSubjects :
           SetupDone /\ client_publish(subject, TRUE, MaxResetRequests)
    \/ \E subject \in EndpointSubjects :
           SetupDone /\ client_publish(subject, FALSE, MaxResetRequests)
    \/ \E d \in mon_pending : monitoring_callback(d)
    \/ \E s \in Services, e \in EndpointIds :
           e \in DOMAIN endpoints[s] /\ handler_begin(s, e)
    \/ \E s \in Services, e \in EndpointIds :
           e \in DOMAIN endpoints[s] /\ handler_return(s, e, MaxElapsed)
    \/ \E s \in Services, e \in EndpointIds, exc \in Exceptions :
           e \in DOMAIN endpoints[s] /\ handler_raise(s, e, exc, MaxElapsed)
    \/ \E now \in Times : Context_reset(now)

SpecContextReset == InitContext /\ [][NextContextReset]_vars

\* a caller makes one call of a function of the library
NextCalls ==
    \/ \E reply \in BOOLEAN, code \in StatusCodes, data \in DataArgs,
          headers \in HeaderArgs :
           call_respond_success(reply, code, data, headers)
    \/ \E reply \in BOOLEAN, code \in StatusCodes, d \in Descriptions,
          data \in DataArgs, headers \in HeaderArgs :
           call_respond_error(reply, code, d, data, headers)
    \/ \E k \in 0..MaxGroups, n \in EndpointNames, subject \in SubjectArgs,
          q \in QueueGroupValues, b \in LimitArgs, m \in LimitArgs :
           \E chain \in GroupChains(k) :
               call_add_endpoint(chain, n, subject, q, b, m)
    \/ \E fn \in EntryPoints, max_wait \in TimeoutArgs, max_interval \in TimeoutArgs :
           call_request_many(fn, max_wait, max_interval)
    \/ \E responder \in Responders, code \in StatusCodes, d \in Descriptions,
          data \in DataArgs, headers \in ResponseHeaders :
           call_request(responder, code, d, data, headers)

SpecCalls == Init /\ [][NextCalls]_vars

\* one running instance with one endpoint added by add_operation
NextTyped ==
    \/ \E catch \in CatchTables : add_operation(catch)
    \/ \E s \in Services : probe.fn = "add_operation" /\ start(s)
    \/ \E s \in Services, n \in EndpointNames :
           /\ probe.fn = "add_operation"
           /\ add_endpoint(s, n, UserHandler, NoSubject, None, NoInt, NoInt, 1)
    \/ \E s \in Services : add_endpoint_subscribed(s)
    \/ \E subject \in EndpointSubjects, reply \in BOOLEAN :
           client_publish(subject, reply, MaxTypedRequests)
    \/ \E s \in Services, e \in EndpointIds :
           e \in DOMAIN endpoints[s] /\ handler_begin(s, e)
    \/ \E s \in Services, e \in EndpointIds, decoded \in DecodeErrors \cup {NoRaise} :
           e \in DOMAIN endpoints[s] /\ operation_handler(s, e, decoded)
    \/ \E s \in Services, e \in EndpointIds, exc \in HandleErrors :
           e \in DOMAIN endpoints[s] /\ operation_handle_raises(s, e, exc)
    \/ \E s \in Services, e \in EndpointIds :
           e \in DOMAIN endpoints[s] /\ operation_respond_error(s, e)
    \/ \E s \in Services, e \in EndpointIds :
           /\ e \in DOMAIN endpoints[s]
           /\ OperationReturns(s, e)
           /\ handler_return(s, e, MaxElapsed)
    \/ \E s \in Services, e \in EndpointIds :
           /\ e \in DOMAIN endpoints[s]
           /\ Reraises(s, e)
           /\ handler_raise(s, e, probe.raised, MaxElapsed)
    \/ \E s \in Services, e \in EndpointIds, ok \in BOOLEAN :
           e \in DOMAIN endpoints[s] /\ error_reply_done(s, e, ok, MaxElapsed)

SpecTyped == Init /\ [][NextTyped]_vars

\* addresses built from the valid templates, and one round trip through each
NextAddress ==
    \/ \E template \in Templates : call_Address(template)
    \/ /\ probe.fn = "Address"
       /\ \E parameters \in ParamValues(probe.template) :
              call_get_subject(parameters)
    \/ call_get_params

SpecAddress == Init /\ [][NextAddress]_vars

\* a program that connects and mounts services through
\* Context.register_service, the subscription of any endpoint failing
NextMount ==
    \/ Context_aenter("script")
    \/ Context_connect
    \/ coro_ends("done")
    \/ first_completed
    \/ task_cancelled("waiter")
    \/ all_completed
    \/ \E r \in 1..MaxResources : Context_enter_resource(r)
    \/ \E s \in Services : CanAddService(s) /\ start(s)
    \/ \E s \in Services, n \in EndpointNames, q \in QueueGroupArgs :
           /\ Mounting(s)
           /\ add_endpoint(s, n, UserHandler, NoSubject, q, NoInt, NoInt,
                           MaxMountEndpoints)
    \/ \E s \in Services : Mounting(s) /\ add_endpoint_subscribed(s)
    \/ \E s \in Services : register_service_fails(s)
    \/ \E s \in Services : Mounted(s) /\ Context_add_service(s)
    \/ \E error \in BOOLEAN : body_ends(error)
    \/ \E s \in Services : Exiting(Item("service", s)) /\ stop(s)
    \/ \E s \in Services, e \in EndpointIds :
           e \in DOMAIN endpoints[s] /\ Endpoint_stop(s, e)
    \/ \E s \in Services : stop_unsubscribe(s)
    \/ \E item \in Range(ctx.exit_stack) : exit_callback(item, FALSE)
    \/ Context_aexit

SpecMount == InitContext /\ [][NextMount]_vars

\* copies of the models, changed in every way their holder can change them
NextCopy ==
    \/ \E kind \in ModelKinds, n \in 0..MaxCopyEndpoints, with_dict \in BOOLEAN, with_metadata \in BOOLEAN :
           call_copy(kind, n, with_dict, with_metadata)
    \/ \E change \in {"field", "entry", "append", "pop"} : mutate_copy(change)

SpecCopy == Init /\ [][NextCopy]_vars

\* the responses of the monitoring endpoints, decoded by a client
NextDecode ==
    \E cls \in ModelKinds : \E resp \in Responses(cls) : call_from_response(cls, resp)

SpecDecode == Init /\ [][NextDecode]_vars

\* one instance stopped, its drains succeeding or failing, and stopped
\* once more
NextStop ==
    \/ \E s \in Services : start(s)
    \/ \E s \in Services, n \in EndpointNames, q \in QueueGroupArgs :
           add_endpoint(s, n, UserHandler, NoSubject, q, NoInt, NoInt, MaxStopEndpoints)
    \/ \E s \in Services : add_endpoint_subscribed(s)
    \/ \E s \in Services : stop(s)
    \/ \E s \in Services, e \in EndpointIds :
           e \in DOMAIN endpoints[s] /\ Endpoint_stop(s, e)
    \/ \E s \in Services, e \in EndpointIds :
           e \in DOMAIN endpoints[s] /\ Endpoint_stop_fails(s, e)
    \/ \E s \in Services : stop_unsubscribe(s)
    \/ \E s \in Services : stop_again(s)
    \/ \E s \in Services : stop_again_unsubscribe(s)
    \/ \E subject \in EndpointSubjects, reply \in BOOLEAN :
           client_publish(subject, reply, MaxLifecycleRequests)
    \/ \E s \in Services, e \in EndpointIds :
           e \in DOMAIN endpoints[s] /\ handler_begin(s, e)
    \/ \E s \in Services, e \in EndpointIds :
           e \in DOMAIN endpoints[s] /\ user_respond(s, e, "respond")
    \/ \E s \in Services, e \in EndpointIds, dt \in Elapsed :
           e \in DOMAIN endpoints[s] /\ handler_return(s, e, dt)

SpecStop == Init /\ [][NextStop]_vars

\* request many with the exits that are no termination: the publish fails,
\* the caller is cancelled
NextRequestManyExit ==
    \/ NextRequestMany
    \/ \E max_wait \in WaitArgs, max_interval \in IntervalArgs,
          max_count \in CountArgs :
           request_many_publish_raises(max_wait, max_interval, max_count)
    \/ \E max_wait \in WaitArgs, max_interval \in IntervalArgs,
          max_count \in CountArgs :
           RequestManyIterator_aenter_publish_raises(max_wait, max_interval, max_count)
    \/ request_many_cancelled
    \/ RequestManyIterator_cancelled

SpecRequestManyExit == Init /\ [][NextRequestManyExit]_vars

\* typed operations whose handler may respond before it returns or raises
NextTypedReply ==
    \/ NextTyped
    \/ \E s \in Services, e \in EndpointIds :
           e \in DOMAIN endpoints[s] /\ MicroMessage_respond(s, e)

SpecTypedReply == Init /\ [][NextTypedReply]_vars

\* ------------------------------------------------------------------- claims
\* the endpoints of the fleet
AllEndpoints ==
    {se \in Services \X EndpointIds : se[2] \in DOMAIN endpoints[se[1]]}

StatsOf(se) == endpoints[se[1]][se[2]].stats

\* C1: for every endpoint, in every reachable state, under any interleaving
\* of deliveries, handler outcomes, monitoring requests and reset() calls,
\* num_errors <= num_requests.
C1_ErrorsWithinRequests ==
    \A se \in AllEndpoints : StatsOf(se).num_errors <= StatsOf(se).num_requests

\* the average a stats record reports is the integer quotient of its
\* processing time by its number of requests
AverageConsistent(st) ==
    st.num_requests > 0 =>
        st.average_processing_time = st.processing_time \div st.num_requests

\* C2: whenever no invocation of an endpoint is in flight and num_requests > 0,
\* average_processing_time = processing_time div num_requests, after any
\* number of completed invocations, failed error replies included.
C2_AverageWhenIdle ==
    \A se \in AllEndpoints :
        endpoints[se[1]][se[2]].pc = "idle" => AverageConsistent(StatsOf(se))

\* the STATS replies among the messages published in the last step
StatsReplies == {i \in DOMAIN wire : wire[i].req.verb = "STATS"}

\* C3: every STATS reply is internally consistent: for each endpoint it
\* reports with num_requests > 0, average_processing_time =
\* processing_time div num_requests, also when a handler is suspended in the
\* middle of an invocation.
C3_StatsReplyConsistent ==
    \A i \in StatsReplies :
        \A k \in DOMAIN wire[i].data.endpoints :
            AverageConsistent(wire[i].data.endpoints[k])

\* C4: after stop() has returned, the instance publishes no monitoring reply
\* and no endpoint reply to a request sent after stop() returned.
C4_SilentAfterStop ==
    \A i \in DOMAIN wire : wire[i].svc \notin wire[i].req.after_stop

\* the subscriptions of an instance that receive messages
ActiveSubs(s) ==
    {[kind |-> "mon", idx |-> i] : i \in {j \in DOMAIN MonitoringSubs(s) :
                                            MonitoringSubs(s)[j].state = "active"}}
    \cup {[kind |-> "ep", idx |-> e] : e \in {j \in DOMAIN endpoints[s] :
                                            endpoints[s][j].sub.state = "active"}}

\* C5: add_endpoint on a service whose stopped flag is true fails with
\* RuntimeError "Cannot add endpoint to a stopped service" and changes
\* nothing: no subscription is created and the endpoint list, the INFO
\* endpoint list and the STATS endpoint list are unchanged.  (A call that
\* passed the check before the flag was set is still awaiting its
\* subscription: the claim is about calls made with the flag set.)
C5_StoppedRejectsAdd ==
    [][\A s \in Services :
          (stopped[s] /\ ~adding[s].pending) =>
              /\ adding'[s] = adding[s]
              /\ add_result'[s] \in {add_result[s], RuntimeErrorStopped}
              /\ ActiveSubs(s)' \subseteq ActiveSubs(s)
              /\ Len(endpoints'[s]) = Len(endpoints[s])
              /\ info_endpoints'[s] = info_endpoints[s]
              /\ stats_endpoints'[s] = stats_endpoints[s]]_vars

C5_Witness ==
    \E s \in Services :
        stopped[s] /\ ~adding[s].pending /\ add_result[s] = RuntimeErrorStopped

\* the nine monitoring subjects under a prefix
MonitoringSubjectsUnder(s, prefix) ==
    UNION {Range(get_internal_subjects(v, token_hex(s), ServiceConfig(s), prefix)) :
              v \in ServiceVerb}

\* C6: when start() returns, the instance holds exactly nine monitoring
\* subscriptions: for each verb V the subjects P.V, P.V.<name> and
\* P.V.<name>.<id>, where P is the api prefix the service was created with.
C6_StartSubscribesUnderPrefix ==
    \A s \in Services :
        phase[s] = "started" =>
            /\ Len(MonitoringSubs(s)) = 9
            /\ \A i \in 1..9 : MonitoringSubs(s)[i].state = "active"
            /\ {MonitoringSubs(s)[i].subject : i \in 1..9} =
                   MonitoringSubjectsUnder(s, api_prefix[s])

\* two remembered replies of one instance to requests of one verb
SameSource(x, y) == x.svc = y.svc /\ x.verb = y.verb

StartedInstances == {s \in Services : phase[s] = "started"}

\* the position of the fleet-wide subject of each verb among the monitoring
\* subscriptions of an instance
FleetWideIdx == {1, 4, 7}

ActiveEndpointSubs(subject) ==
    {se \in AllEndpoints :
        /\ endpoints[se[1]][se[2]].sub.state = "active"
        /\ endpoints[se[1]][se[2]].sub.subject = subject}

\* endpoint messages queued for or counted by the first k endpoints of eps
RECURSIVE SumRequests(_, _)
SumRequests(eps, k) ==
    IF k = 0 THEN 0
    ELSE eps[k].stats.num_requests + Len(eps[k].pending) + SumRequests(eps, k - 1)

\* the same, for the instances 1..n
RECURSIVE SumInstances(_, _)
SumInstances(all, n) ==
    IF n = 0 THEN 0
    ELSE SumRequests(all[n], Len(all[n])) + SumInstances(all, n - 1)

\* endpoint messages queued for or counted by some endpoint of the fleet
Handled == SumInstances(endpoints, NumServices)

\* what one step of the fleet does with monitoring requests and endpoint
\* messages: a request on a fleet-wide subject is queued once for every
\* started instance; a queued request is taken by answering it, one reply
\* each; an endpoint message is queued for exactly one endpoint of the
\* queue group, and counted once
FleetStep ==
    LET before == Handled
        after == Handled'
    IN  /\ (mon_pending = {} /\ mon_pending' # {})
           => /\ {d.svc : d \in mon_pending'} = StartedInstances
              /\ Cardinality(mon_pending') = Cardinality(StartedInstances)
        /\ \A d \in mon_pending \ mon_pending' :
              /\ mon_pending' = mon_pending \ {d}
              /\ Len(wire') = 1
              /\ wire'[1].svc = d.svc
              /\ wire'[1].req = d.msg
        /\ \A i \in DOMAIN wire' :
              wire'[i].req.verb # "" =>
                  \E d \in mon_pending \ mon_pending' : d.svc = wire'[i].svc
        /\ after \in {before, before + 1}
        /\ after = before + 1 => num_msgs' = num_msgs + 1
        /\ (num_msgs' = num_msgs + 1 /\ mon_pending' = {}
            /\ \E subject \in EndpointSubjects : ActiveEndpointSubs(subject) # {})
           => after = before + 1

\* C8: with N started and not stopped instances, one request published on a
\* fleet-wide monitoring subject is answered exactly once by each instance
\* (N replies, monitoring subscriptions are not queue-grouped), whereas one
\* request on an endpoint subject shared by instances in the same queue
\* group is handled, counted and answered by exactly one of them.
C8_FleetRouting ==
    /\ [](\A s \in Services : \A i \in DOMAIN MonitoringSubs(s) :
              MonitoringSubs(s)[i].queue = "")
    /\ [](\A x, y \in AllEndpoints :
              /\ endpoints[x[1]][x[2]].sub.queue # ""
              /\ endpoints[x[1]][x[2]].sub.subject = endpoints[y[1]][y[2]].sub.subject
                     => endpoints[x[1]][x[2]].sub.queue = endpoints[y[1]][y[2]].sub.queue)
    /\ [](Handled <= num_msgs)
    /\ [][FleetStep]_vars

C8_Witness ==
    \E x, y \in seen :
        /\ x.svc # y.svc
        /\ x.verb = "PING" /\ y.verb = "PING"
        /\ x.idx \in FleetWideIdx /\ y.idx \in FleetWideIdx

\* the error reply of the claim: code 500, description "Internal Server
\* Error", empty body, sent by instance s in answer to msg
InternalErrorReply(s, msg) ==
    [svc |-> s, req |-> msg, data |-> [bytes |-> ""],
     headers |-> [is_none |-> FALSE,
                  d |-> [k \in {"Nats-Service-Error", "Nats-Service-Error-Code"} |->
                            IF k = "Nats-Service-Error"
                            THEN "Internal Server Error" ELSE "500"]]]

IsInternalErrorReply(m) ==
    /\ ~m.headers.is_none
    /\ "Nats-Service-Error-Code" \in DOMAIN m.headers.d
    /\ m.headers.d["Nats-Service-Error-Code"] = "500"

\* the steps of the invocations of endpoint se
Delivered(se) ==
    endpoints[se[1]][se[2]].pc = "idle" /\ endpoints'[se[1]][se[2]].pc = "handler"

Raised(se) ==
    /\ endpoints[se[1]][se[2]].pc = "handler"
    /\ endpoints'[se[1]][se[2]].outcome = "raised"

Returned(se) ==
    /\ endpoints[se[1]][se[2]].pc = "handler"
    /\ endpoints'[se[1]][se[2]].outcome = "returned"

\* the invocation whose handler raised is over
RaisedCompletes(se) ==
    /\ endpoints[se[1]][se[2]].pc # "idle"
    /\ endpoints'[se[1]][se[2]].pc = "idle"
    /\ endpoints'[se[1]][se[2]].outcome \in {"raised", "failed"}

\* the counters over one step: one more request per delivery and at no other
\* step; one more error, with its text, when the handler raises; errors
\* untouched when it returns, and no error reply then
CountersStep(se) ==
    LET st == endpoints[se[1]][se[2]].stats
        st2 == endpoints'[se[1]][se[2]].stats
    IN  /\ Delivered(se) => st2.num_requests = st.num_requests + 1
        /\ st2.num_requests # st.num_requests => Delivered(se)
        /\ Raised(se) =>
               /\ st2.num_errors = st.num_errors + 1
               /\ st2.last_error \in {py_str_exc(exc) : exc \in Exceptions}
        /\ st2.num_errors # st.num_errors => Raised(se)
        /\ Returned(se) =>
               /\ st2.num_errors = st.num_errors
               /\ st2.last_error = st.last_error
               /\ wire' = <<>>

\* an error reply is published only by the invocation whose handler raised
ErrorRepliesStep ==
    \A i \in DOMAIN wire' :
        IsInternalErrorReply(wire'[i]) =>
            \E se \in AllEndpoints :
                RaisedCompletes(se) /\ se[1] = wire'[i].svc

C10_NoReplySubject ==
    /\ [](\A se \in AllEndpoints :
            (endpoints[se[1]][se[2]].pc = "handler"
             /\ ~endpoints[se[1]][se[2]].msg.reply)
                => /\ endpoints[se[1]][se[2]].sent = <<>>
                   /\ ~endpoints[se[1]][se[2]].respond_raised)
    /\ [][\A se \in AllEndpoints :
            LET ep == endpoints[se[1]][se[2]]
                ep2 == endpoints'[se[1]][se[2]]
            IN  /\ (Delivered(se) /\ ~Head(ep.pending).reply) =>
                       /\ ep2.stats.num_requests = ep.stats.num_requests + 1
                       /\ ep2.stats.num_errors = ep.stats.num_errors
                /\ (ep.pc = "handler" /\ ~ep.msg.reply
                    /\ ep2.responds = ep.responds + 1) =>
                       /\ wire' = <<>>
                       /\ ~ep2.respond_raised
                /\ (Returned(se) /\ ~ep.msg.reply) =>
                       ep2.stats.num_errors = ep.stats.num_errors
          ]_vars

C10_Witness ==
    \E se \in AllEndpoints :
        /\ endpoints[se[1]][se[2]].pc = "handler"
        /\ ~endpoints[se[1]][se[2]].msg.reply
        /\ endpoints[se[1]][se[2]].responds > 0
        /\ StatsOf(se).num_requests > 0

\* the headers of a caller: None is no header at all
CallerHeaders(headers) == IF headers.is_none THEN EmptyDict ELSE headers.d

\* the entries of d, and those of extra
HeadersPlus(d, extra) ==
    [k \in (DOMAIN d) \cup (DOMAIN extra) |->
        IF k \in DOMAIN extra THEN extra[k] ELSE d[k]]

SuccessEntries(code) ==
    [k \in {"Nats-Service-Success-Code"} |-> py_str_int(code)]

ErrorEntries(code, description) ==
    [k \in {"Nats-Service-Error-Code", "Nats-Service-Error"} |->
        IF k = "Nats-Service-Error-Code" THEN py_str_int(code) ELSE description]

\* C11: respond_success(code, data, headers) issues exactly one respond whose
\* headers are the caller's headers plus Nats-Service-Success-Code =
\* str(code) and whose body is data (empty when None); respond_error(code,
\* description, data, headers) issues exactly one respond whose headers are
\* the caller's headers plus Nats-Service-Error-Code = str(code) and
\* Nats-Service-Error = description; for headers None, empty or non-empty.
C11_RespondHeaders ==
    /\ probe.fn = "respond_success" =>
           /\ Len(probe.responds) = 1
           /\ probe.responds[1].headers =
                  SomeHeaders(HeadersPlus(CallerHeaders(probe.headers),
                                          SuccessEntries(probe.code)))
           /\ probe.responds[1].data =
                  Bytes(IF probe.data = None THEN "" ELSE probe.data)
    /\ probe.fn = "respond_error" =>
           /\ Len(probe.responds) = 1
           /\ probe.responds[1].headers =
                  SomeHeaders(HeadersPlus(CallerHeaders(probe.headers),
                                          ErrorEntries(probe.code,
                                                       probe.description)))

C11_Witness ==
    /\ probe.fn = "respond_error"
    /\ ~probe.headers.is_none
    /\ DOMAIN probe.headers.d = {"X-Trace"}
    /\ DOMAIN probe.responds[1].headers.d =
           {"X-Trace", "Nats-Service-Error-Code", "Nats-Service-Error"}

\* what one completing add_endpoint call does to the lists of its instance:
\* the endpoint of the call goes to the end of the three lists, the earlier
\* entries stay where they are
CompletesAdd(s) ==
    LET n == Len(endpoints[s])
    IN  /\ Len(endpoints'[s]) = n + 1
        /\ endpoints'[s][n + 1].config = adding[s].config
        /\ \A i \in 1..n :
              /\ endpoints'[s][i].config = endpoints[s][i].config
              /\ info_endpoints'[s][i] = info_endpoints[s][i]
              /\ stats_endpoints'[s][i] = stats_endpoints[s][i]

\* C12: in every reachable state the endpoint list, the INFO endpoint list
\* and the STATS endpoint list of a service have the same length and list
\* the endpoints in the order their add_endpoint calls completed, the i-th
\* INFO entry and the i-th STATS entry describing the i-th endpoint and
\* reflecting its current counters.
C12_ListsAgree ==
    /\ [](\A s \in Services :
            /\ Len(info_endpoints[s]) = Len(endpoints[s])
            /\ Len(stats_endpoints[s]) = Len(endpoints[s])
            /\ \A i \in DOMAIN endpoints[s] :
                  /\ handle_info_request(s).endpoints[i] = endpoints[s][i].info
                  /\ handle_stats_request(s).endpoints[i] = endpoints[s][i].stats
                  /\ endpoints[s][i].info.name = endpoints[s][i].config.name
                  /\ endpoints[s][i].info.subject = endpoints[s][i].config.subject
                  /\ endpoints[s][i].stats.name = endpoints[s][i].config.name
                  /\ endpoints[s][i].stats.subject = endpoints[s][i].config.subject)
    /\ [][\A s \in Services :
            /\ (adding[s].pending /\ ~adding'[s].pending) => CompletesAdd(s)
            /\ Len(endpoints'[s]) # Len(endpoints[s]) => adding[s].pending]_vars

C12_Witness ==
    \E s \in Services :
        /\ Len(endpoints[s]) = 2
        /\ endpoints[s][1].config.name = "endpoint2"
        /\ endpoints[s][2].config.name = "endpoint1"
        /\ handle_stats_request(s).endpoints[2].num_requests = 1
        /\ handle_stats_request(s).endpoints[1].num_requests = 0
        /\ handle_info_request(s).endpoints[1].subject # <<"endpoint2">>

\* the value of the nearest group of the first k of a chain that set field,
\* otherwise default
RECURSIVE NearestQueueGroup(_, _, _)
NearestQueueGroup(chain, k, default) ==
    IF k = 0 THEN default
    ELSE IF chain[k].queue_group # None THEN chain[k].queue_group
    ELSE NearestQueueGroup(chain, k - 1, default)

RECURSIVE NearestLimit(_, _, _, _)
NearestLimit(chain, k, field, default) ==
    IF k = 0 THEN default
    ELSE IF ~chain[k][field].is_none THEN chain[k][field].v
    ELSE NearestLimit(chain, k - 1, field, default)

\* g1.g2...gk as tokens
RECURSIVE GroupPrefix(_, _)
GroupPrefix(chain, k) ==
    IF k = 0 THEN <<>> ELSE Append(GroupPrefix(chain, k - 1), chain[k].name)

C14_SubscriptionAsConfigured ==
    \A se \in AllEndpoints :
        LET ep == endpoints[se[1]][se[2]]
        IN  /\ ep.sub.subject = ep.config.subject
            /\ ep.sub.queue = ep.config.queue_group
            /\ ep.sub.pending_msgs_limit = ep.config.pending_msgs_limit
            /\ ep.sub.pending_bytes_limit = ep.config.pending_bytes_limit


\* the invocation under way is inside the chain of its handler
ChainRunning(ep) ==
    /\ ep.pc = "handler"
    /\ ep.config.handler.wrapped
    /\ ep.mw.stage \in {"entering", "user", "returning"}

IsPrefix(a, b) == Len(a) <= Len(b) /\ SubSeq(b, 1, Len(a)) = a

\* the chain of the endpoint moves
ChainStep(se) ==
    \/ endpoints'[se[1]][se[2]].mw # endpoints[se[1]][se[2]].mw
    \/ endpoints'[se[1]][se[2]].responds # endpoints[se[1]][se[2]].responds

\* m1 has returned and unwrap responds
UnwrapStep(se) ==
    /\ endpoints[se[1]][se[2]].mw.stage = "returning"
    /\ endpoints'[se[1]][se[2]].mw.stage = "done"

\* C15: for a handler behind the middlewares [m1, ..., mk], each calling
\* next once, the middlewares are entered in the order of the list, m1 first
\* and mk last before the handler; nothing is published while the chain
\* runs, however many respond calls the handler makes; once m1 has returned,
\* exactly one reply, the response m1 returned, is published when the
\* request has a reply subject, and none when it has not.
C15_MiddlewareChain ==
    /\ [](\A se \in AllEndpoints :
            LET ep == endpoints[se[1]][se[2]]
            IN  ep.config.handler.wrapped =>
                  /\ IsPrefix(ep.mw.entered, ep.config.handler.middlewares)
                  /\ ep.mw.stage \in {"user", "returning", "done"} =>
                         ep.mw.entered = ep.config.handler.middlewares
                  /\ ChainRunning(ep) => ep.sent = <<>>
                  /\ (ep.pc = "handler" /\ ep.mw.stage = "done") =>
                         Len(ep.sent) = IF ep.msg.reply THEN 1 ELSE 0)
    /\ [][\A se \in AllEndpoints :
            LET ep == endpoints[se[1]][se[2]]
            IN  /\ (ChainRunning(ep) /\ ChainStep(se) /\ ~UnwrapStep(se)) =>
                       wire' = <<>>
                /\ (ep.config.handler.wrapped /\ UnwrapStep(se)) =>
                       wire' = IF ep.msg.reply
                               THEN <<[svc |-> se[1], req |-> ep.msg,
                                       data |-> ep.mw.response.data,
                                       headers |->
                                           SomeHeaders(ep.mw.response.headers)]>>
                               ELSE <<>>
          ]_vars

C15_Witness ==
    \E se \in AllEndpoints :
        LET ep == endpoints[se[1]][se[2]]
        IN  /\ ep.pc = "handler"
            /\ ep.mw.stage = "done"
            /\ ep.msg.reply
            /\ Len(ep.config.handler.middlewares) = 2
            /\ ep.mw.entered = ep.config.handler.middlewares
            /\ ep.responds = 2
            /\ "m1" \in DOMAIN ep.mw.response.headers
            /\ Len(wire) = 1
            /\ wire[1].data = ep.mw.response.data

\* C16: when the handler returns without having called respond, the
\* invocation is a normal one, behind middlewares or not: nothing is
\* published, no error reply is sent and num_errors is not incremented.
C16_SilentReturnIsNormal ==
    [][\A se \in AllEndpoints :
        LET ep == endpoints[se[1]][se[2]]
            ep2 == endpoints'[se[1]][se[2]]
        IN  (ep.pc \in {"handler", "error_reply"}
             /\ ep2.mw.user_returned /\ ep2.responds = 0) =>
                /\ ep2.stats.num_errors = ep.stats.num_errors
                /\ ep2.pc # "error_reply"
                /\ ep2.outcome # "raised"
                /\ ep2.sent = ep.sent
      ]_vars

\* what the caller got
Collected == IF rm.form = "batch" THEN rm.responses ELSE rm.yielded

C19_IdleDeadlineRestarts ==
    (rm.pc = "returned" /\ ~rm.max_interval.is_none) =>
        /\ \A i \in DOMAIN Collected : Collected[i].gap <= rm.max_interval.v
        /\ (rm.max_wait.is_none /\ rm.max_count.is_none /\ ~rm.stop_on_sentinel) =>
               \A k \in DOMAIN rm.arrivals :
                   (\A j \in 1..k : rm.arrivals[j].gap < rm.max_interval.v) =>
                       \E i \in DOMAIN Collected : Collected[i] = rm.arrivals[k]

NotSupplied(arg) == arg.omitted \/ arg.value.is_none

\* C20: a request-many call given neither max_wait nor max_interval runs
\* with a max_wait of 0.5 s, in the batch form and in the iterator form
\* (RequestManyIterator and request_many_iterator).
C20_DefaultHalfSecond ==
    (probe.fn \in EntryPoints
     /\ NotSupplied(probe.max_wait) /\ NotSupplied(probe.max_interval)) =>
        /\ probe.timeouts.max_wait = SomeInt(DEFAULT_MAX_WAIT)
        /\ probe.timeouts.max_interval.is_none

\* the replies of a request-many that stops on a sentinel
IsSentinel(msg) ==
    IF rm.form = "batch" THEN msg.data = "" ELSE msg.subject = "sentinel"

\* the position of the first sentinel among the replies sent, 0 without one
FirstSentinel ==
    LET at == {i \in DOMAIN rm.arrivals : IsSentinel(rm.arrivals[i])}
    IN  IF at = {} THEN 0 ELSE CHOOSE i \in at : \A j \in at : i <= j

BeforeSentinel == SubSeq(rm.arrivals, 1, FirstSentinel - 1)

\* C21: with stop_on_sentinel, the collection ends at the first sentinel
\* reply (empty body in the batch form, sentinel subject in the iterator
\* form): the output holds no sentinel and is made of the replies received
\* before the first one, in arrival order, all of them once the iterator
\* has taken the sentinel
C21_StopsAtSentinel ==
    rm.stop_on_sentinel /\ FirstSentinel # 0 =>
        /\ \A i \in DOMAIN Collected : ~IsSentinel(Collected[i])
        /\ IsPrefix(Collected, BeforeSentinel)
        /\ rm.form = "iterator" /\ rm.total_received >= FirstSentinel
               => Collected = BeforeSentinel

\* the response of the probed request carries the error-code header
CarriesErrorCode ==
    /\ ~probe.response.headers.is_none
    /\ "Nats-Service-Error-Code" \in DOMAIN probe.response.headers.d

Reverse(seq) == [i \in 1..Len(seq) |-> seq[Len(seq) + 1 - i]]

\* C23: on scope exit of a Context every registered teardown (entered
\* resources, added services, the connected client) runs exactly once, in
\* reverse order of acquisition, services being stopped before the client
\* is closed, whether the exit is normal, follows a cancel or an error, and
\* whether or not a teardown step raises
C23_TeardownInReverse ==
    /\ ctx.pc \in {"exiting", "done"} => IsPrefix(ctx.exits, Reverse(ctx.entered))
    /\ ctx.pc = "done" =>
           /\ ctx.exits = Reverse(ctx.entered)
           /\ \A s \in EnteredServices : phase[s] = "stopped"
           /\ ClientItem \in Range(ctx.entered) => ctx.client = "closed"
           /\ \A i, j \in DOMAIN ctx.exits :
                  ctx.exits[i].kind = "service" /\ ctx.exits[j].kind = "client"
                      => i < j

C23_Witness ==
    /\ ctx.pc = "done" /\ ctx.cancel_event /\ ctx.outcome = "raised"
    /\ Len(ctx.exits) = 3
    /\ ctx.exits[1] \in ctx.exit_raised
    /\ ctx.exits[2].kind = "service" /\ ctx.exits[3] = ClientItem

\* C24: wait_for returns once its task has completed or the cancel flag is
\* set, and only then; on return both branches are finished, the loser
\* cancelled and awaited; a return caused by cancel (the task was the one
\* cancelled) raises nothing
C24_WaitFor ==
    /\ [](ctx.wf.outcome # "none" =>
              /\ ctx.wf.coro \in Finished /\ ctx.wf.waiter \in Finished
              /\ ctx.wf.coro \in {"done", "raised"} \/ ctx.cancel_event
              /\ ctx.wf.coro \in {"done", "raised"} \/ ctx.wf.waiter = "done"
              /\ ctx.wf.coro = "cancelled" => ctx.wf.outcome = "returned")
    /\ (ctx.pc = "wait_for" /\ (ctx.cancel_event \/ ctx.coro \in Finished))
           ~> (ctx.pc \notin {"wait_for", "wait_all"})

C24_Witness ==
    /\ ctx.wf = [outcome |-> "returned", coro |-> "cancelled", waiter |-> "done"]
    /\ ctx.cancel_event

\* C25: whenever Context.connect() has returned and the client has been
\* connected, client.close() is registered for teardown, for every
\* interleaving of the end of the connection with cancel()
C25_ConnectRegistersClose ==
    ctx.connect_returned /\ ctx.client # "new" => ClientItem \in Range(ctx.entered)

\* C26: when run_forever returns after it connected the client, teardown
\* has stopped every service setup added and has closed the client
C26_RunForeverTearsDown ==
    ctx.mode = "run_forever" /\ ctx.pc = "done" /\ ctx.outcome = "returned"
    /\ ctx.client # "new"
        => /\ \A s \in EnteredServices : phase[s] = "stopped"
           /\ ctx.client = "closed"

\* C27: the cancel flag is one-shot: once set it stays set, every pending
\* and later wait() completes and run_forever leaves its scope and returns
\* (or raises what connect or setup raised); cancel before connect or
\* setup has completed makes run_forever skip the steps that remain
C27_CancelOneShot ==
    /\ [][ctx.cancel_event => ctx'.cancel_event]_vars
    /\ [][ctx.mode = "run_forever" /\ ctx.cancel_event
              => ctx'.doing \in {ctx.doing, "exit"}]_vars
    /\ (ctx.cancel_event /\ (ctx.pc = "wait" \/ ctx.waiter = "running"))
           ~> (ctx.pc # "wait" /\ ctx.waiter # "running")
    /\ (ctx.mode = "run_forever" /\ ctx.cancel_event)
           ~> (ctx.pc = "done" /\ (ctx.outcome = "returned" \/ ctx.coro = "raised"))

C27_Witness ==
    /\ ctx.mode = "run_forever" /\ ctx.pc = "done" /\ ctx.outcome = "returned"
    /\ ctx.cancel_event
    /\ ctx.wf.coro = "cancelled" /\ Len(ctx.entered) = 1

\* no handler of the instance is in the middle of an invocation
Quiescent(s) == \A e \in DOMAIN endpoints[s] : endpoints[s][e].pc = "idle"

\* reset() ran on the instance in this step
ResetOf(s) == num_resets'[s] # num_resets[s]

OperationEndpoints ==
    {se \in AllEndpoints : probe.fn = "add_operation"}

\* the handler of the operation was entered for the latest request
Replied(se) ==
    probe.pc = "replied" /\ probe.request = StatsOf(se).num_requests

\* the handler of the operation raised and the exception left it
Propagated(se) ==
    /\ probe.pc = "except"
    /\ probe.request = StatsOf(se).num_requests
    /\ endpoints[se[1]][se[2]].outcome \in {"raised", "failed"}

\* the entry expected to decide, the arguments it gives respond_error, and
\* the reply published when the request has a reply subject
DecidedBy(se, entry, payload) ==
    /\ probe.reply = [code |-> entry.code, description |-> entry.description,
                      payload |-> payload]
    /\ (endpoints[se[1]][se[2]].pc = "handler"
        /\ endpoints[se[1]][se[2]].msg.reply) =>
           /\ endpoints[se[1]][se[2]].sent =
                  <<SomeHeaders(ErrorEntries(entry.code, entry.description))>>
           /\ wire # <<>> =>
                  wire = <<[svc |-> se[1], req |-> endpoints[se[1]][se[2]].msg,
                            data |-> Bytes(payload),
                            headers |-> SomeHeaders(
                                ErrorEntries(entry.code, entry.description))]>>

Min(S) == CHOOSE i \in S : \A j \in S : i <= j
Max(S) == CHOOSE i \in S : \A j \in S : i >= j

\* the entries of the table whose error_origin is the class of the value
SameType == {i \in DOMAIN probe.catch :
                probe.catch[i].origin = probe.raised.type}

\* C29 as stated: in a typed operation, when the handler raises, the entry
\* that determines the error reply is the first entry of the catch table, in
\* declaration order, whose error_origin is the type of the raised value
\* (type identity); its code, description and formatter output are sent as
\* the error reply.
C29_FirstOfSameType ==
    \A se \in OperationEndpoints :
        probe.phase = "handle" =>
            /\ Propagated(se) => SameType = {}
            /\ Replied(se) =>
                   /\ SameType # {}
                   /\ LET entry == probe.catch[Min(SameType)]
                      IN  DecidedBy(se, entry,
                              IF entry.fmt = None THEN ""
                              ELSE type_adapter_encode(
                                       fmt_call(entry.fmt, probe.raised)))

\* the first entry of each error_origin the table names
FirstOfOrigin == {i \in DOMAIN probe.catch :
                     \A j \in 1..(i - 1) :
                         probe.catch[j].origin # probe.catch[i].origin}

\* those whose error_origin is the class of the value or one of its bases
InstanceOf == {i \in FirstOfOrigin :
                  \E k \in DOMAIN Mro[probe.raised.type] :
                      Mro[probe.raised.type][k] = probe.catch[i].origin}

\* C29 amended: when the handler raises, the error_origin classes of the
\* catch table are tried in the order of their first declaration and the
\* first one the raised value is an instance of (its class or a base of it)
\* wins; the last entry declared for that class gives the code, the
\* description and the formatter; the payload of the error reply is the
\* encoded formatter output, and empty when there is no formatter or its
\* output is empty.
C29_FirstInstanceOf ==
    \A se \in OperationEndpoints :
        probe.phase = "handle" =>
            /\ Propagated(se) => InstanceOf = {}
            /\ Replied(se) =>
                   /\ InstanceOf # {}
                   /\ LET origin == probe.catch[Min(InstanceOf)].origin
                          entry == probe.catch[Max({i \in DOMAIN probe.catch :
                                       probe.catch[i].origin = origin})]
                          output == IF entry.fmt = None THEN ""
                                    ELSE fmt_call(entry.fmt, probe.raised)
                      IN  DecidedBy(se, entry,
                              IF output = "" THEN ""
                              ELSE type_adapter_encode(output))

\* a KeyError raised by the handler is answered by the entry for Exception,
\* declared after one for ValueError
C29_Witness ==
    \E se \in OperationEndpoints :
        /\ probe.pc = "replied"
        /\ probe.phase = "handle"
        /\ probe.raised.type = "KeyError"
        /\ Len(probe.catch) = 2
        /\ probe.catch[1].origin = "ValueError"
        /\ probe.catch[2].origin = "Exception"
        /\ probe.catch[2].fmt = "str"
        /\ probe.reply = [code |-> 500, description |-> "Conflict",
                          payload |-> "'error'"]
        /\ Len(wire) = 1
        /\ wire[1].headers.d["Nats-Service-Error"] = "Conflict"

\* the raised value is an instance of the error_origin of some entry
Matches ==
    \E i \in DOMAIN probe.catch, k \in DOMAIN Mro[probe.raised.type] :
        Mro[probe.raised.type][k] = probe.catch[i].origin

\* the except clause of the operation's handler acts in this step
InExcept(se) ==
    /\ probe.pc = "except"
    /\ probe.request = StatsOf(se).num_requests
    /\ endpoints[se[1]][se[2]].pc = "handler"
    /\ \/ probe' # probe
       \/ endpoints'[se[1]][se[2]].pc # "handler"

C31_AddressRoundTrip ==
    probe.fn = "Address" =>
        /\ probe.placeholders.raised = None
        /\ probe.pc = "params" => probe.params = probe.parameters

\* C32: if registering any endpoint fails while register_service (or
\* Context.register_service) is mounting a service, the service is not left
\* running in a partial state: afterwards none of its monitoring
\* subscriptions and none of its endpoint subscriptions is active.
C32_NoPartialMount ==
    \A s \in Services :
        (add_result[s] = "SubscribeError" /\ ctx.pc = "done") => ActiveSubs(s) = {}

\* C33: copy() of a PingInfo, ServiceInfo or ServiceStats equals the
\* original and is independent of it: changing a field, a metadata map
\* entry, an endpoint list or a per-endpoint data map of the copy never
\* changes the original, which is what the service goes on to report.
C33_CopyIndependent ==
    probe.fn = "copy" =>
        /\ probe.mutations = 0 =>
               Value(probe.heap, probe.copy) = Value(probe.heap, probe.original)
        /\ Value(probe.heap, probe.original) = probe.before
        /\ Reach(probe.heap, probe.copy) \cap Reach(probe.heap, probe.original) = {}

\* a ServiceStats with an endpoint that has a data map, after the data map
\* and the endpoint list of the copy were changed
C33_Witness ==
    /\ probe.fn = "copy"
    /\ probe.mutations = 2
    /\ probe.before.kind = "ServiceStats"
    /\ Len(probe.before.items) = 0
    /\ Len(probe.before.ref["endpoints"].items) = 1
    /\ probe.before.ref["endpoints"].items[1].ref["data"].kind = "dict"
    /\ LET v == Value(probe.heap, probe.copy)
       IN  /\ Len(v.ref["endpoints"].items) = 2
           /\ v.ref["endpoints"].items[1].ref["data"].entries["the"] = "other"

\* C34: decoding a PING, INFO or STATS response ignores unknown keys at
\* every level, at the top and inside each endpoint entry, and yields the
\* model the response without those keys yields; optional fields that are
\* missing take their defaults.
C34_UnknownKeysIgnored ==
    probe.fn = "from_response" =>
        /\ probe.result.raised = None
        /\ probe.result = from_response(probe.cls, without_unknown(probe.cls, probe.resp))
        /\ \A f \in DOMAIN FieldDefaults(probe.cls) \ DOMAIN probe.resp.fields :
               probe.result.fields[f] = FieldDefaults(probe.cls)[f]

\* C35: stop() on a service that is already stopped completes without
\* error, leaves the stopped flag true and performs no further drain or
\* unsubscribe.
C35_StopAgainIsNoOp ==
    (probe.fn = "stop" /\ probe.pc = "returned") =>
        /\ probe.raised = None
        /\ stopped[probe.service]
        /\ probe.drains = 0
        /\ probe.unsubscribes = 0

\* C36: during stop() the stopped flag is set first, then every endpoint
\* subscription is drained, and no monitoring subscription is unsubscribed
\* before all endpoint drains have completed.
C36_StopOrder ==
    /\ [](\A s \in Services :
              (\E e \in DOMAIN endpoints[s] : endpoints[s][e].sub.state = "draining")
                  => stopped[s])
    /\ [][\A s \in Services :
              /\ (~stopped[s] /\ stopped'[s]) =>
                     \A e \in DOMAIN endpoints[s] :
                         endpoints'[s][e].sub.state \in {"draining", "none"}
              /\ (\E i \in DOMAIN MonitoringSubs(s) :
                         /\ MonitoringSubs(s)[i].state = "active"
                         /\ MonitoringSubs(s)'[i].state = "closed")
                     => /\ stopped[s]
                        /\ \A e \in DOMAIN endpoints[s] :
                               endpoints[s][e].sub.state # "draining"
          ]_vars

\* two endpoints were drained and the monitoring subscriptions are closed
C36_Witness ==
    \E s \in Services :
        /\ phase[s] = "stopped"
        /\ Len(endpoints[s]) = 2
        /\ \A e \in DOMAIN endpoints[s] : endpoints[s][e].sub.state = "none"
        /\ \A i \in DOMAIN MonitoringSubs(s) : MonitoringSubs(s)[i].state = "closed"


\* C38: an add_endpoint call that passed the stopped check and is awaiting
\* its subscription when stop() starts never leaves a live endpoint
\* behind: once stop() has returned and the call is over, no endpoint of
\* the service has an active subscription.
C38_NoEndpointAfterStop ==
    \A s \in Services :
        (phase[s] = "stopped" /\ ~adding[s].pending) =>
            \A e \in DOMAIN endpoints[s] : endpoints[s][e].sub.state # "active"

\* C39: if draining one endpoint subscription fails during stop(), the
\* other endpoint subscriptions are still drained and all monitoring
\* subscriptions are still unsubscribed before the failure is reported.
C39_StopFailureStillStops ==
    \A s \in Services :
        phase[s] = "stop raised" =>
            /\ \A e \in DOMAIN endpoints[s] :
                   endpoints[s][e].sub.state \notin {"active", "draining"}
            /\ \A i \in DOMAIN MonitoringSubs(s) : MonitoringSubs(s)[i].state = "closed"


\* C37: on every exit path of request-many, in both forms (termination by
\* any condition, failure of the publish, cancellation of the caller), the
\* inbox subscription is unsubscribed and no timer or pending receive is
\* left running.
C37_ExitCleansUp ==
    rm.pc \in {"returned", "raised", "cancelled"} =>
        /\ ~rm.sub.active
        /\ (rm.wait_task.armed /\ ~rm.wait_task.done) => rm.tasks_cancelled
        /\ (rm.interval_task.armed /\ ~rm.interval_task.done) => rm.tasks_cancelled


\* C40: a typed operation publishes at most one reply per request: when
\* its handler has already responded and then raises an exception, matched
\* by the catch table or not, no second reply is published.
C40_AtMostOneReply ==
    /\ [](probe.fn = "add_operation" =>
              \A s \in Services : \A e \in DOMAIN endpoints[s] :
                  Len(endpoints[s][e].sent) <= 1)
    /\ [][probe.fn = "add_operation" =>
              \A s \in Services : \A e \in DOMAIN endpoints[s] :
                  (/\ endpoints[s][e].pc = "error_reply"
                   /\ endpoints'[s][e].pc = "idle"
                   /\ endpoints[s][e].sent # <<>>) => wire' = <<>>]_vars
====
